---- MODULE Spec2Model ----
(***************************************************************************)
(* Mutation simulation engine of dassp/simulation/manager.py: the          *)
(* breakage-index resolver, the four mutation generators, the four         *)
(* appliers and the history driver generate_mutated_genome.                *)
(*                                                                         *)
(* Python objects that are mutated in place (genomes, configurations) live *)
(* in heaps and are named by references (indices into the heap). Python    *)
(* indices are kept 0-based: At(s, i) reads s[i].                          *)
(***************************************************************************)
EXTENDS Integers, Sequences, FiniteSets, TLC

\* ------------------------------------------------------------------ bounds
\* Most chromosomes of a starting genome.
MaxChromosomes == 2
\* Segments per chromosome of a starting genome (chrs_size).
ChrsSize == 3
\* Largest mutation_cnt of a run of generate_mutated_genome.
MaxMutationCnt == 2
\* Largest run followed, measured as the segments of the starting genome plus
\* twice mutation_cnt.
MaxScope == 10

\* ------------------------------------------------------- sequence helpers
At(s, i) == s[i + 1]
SetAt(s, i, v) == [s EXCEPT ![i + 1] = v]
\* s[a:b]
Slice(s, a, b) == IF b <= a THEN <<>> ELSE SubSeq(s, a + 1, b)
\* s[1:] and s[:-1]
DropFirst(s) == Slice(s, 1, Len(s))
DropLast(s) == Slice(s, 0, Len(s) - 1)
Range(s) == {s[i] : i \in DOMAIN s}

\* -------------------------------------------------------------- data model
\* A Position is <<chromosome, offset, extremity side>>; None is <<>>.
None == <<>>
REVERSAL == "REVERSAL"
DUPLICATION == "DUPLICATION"
DELETION == "DELETION"
TRANSLOCATION == "TRANSLOCATION"
\* A mutation type that is no key of the dispatch tables.
UNSUPPORTED == "UNSUPPORTED"

\* Segment [chromosome, idx, is_reversed, haplotype]: its two extremities swap
\* when the segment is reversed.
start_position(s) == <<s.chromosome, s.idx, IF s.is_reversed THEN 1 ELSE 0>>
end_position(s) == <<s.chromosome, s.idx, IF s.is_reversed THEN 0 ELSE 1>>

Segment(c, i, h) == [chromosome |-> c, idx |-> i, is_reversed |-> FALSE, haplotype |-> h]

\* ChromosomeGenerator.generate_chromosomes: chromosomes_cnt chromosomes of
\* chromosome_size segments, each twice (haplotypes A and B) when ab.
generate_chromosomes(chromosome_size, chromosomes_cnt, ab) ==
    LET chr(c, h) == [i \in 1..chromosome_size |-> Segment(c, i, h)]
    IN IF ab
       THEN [n \in 1..(2 * chromosomes_cnt) |->
                chr((n + 1) \div 2, IF n % 2 = 1 THEN "A" ELSE "B")]
       ELSE [n \in 1..chromosomes_cnt |-> chr(n, "A")]

\* ------------------------------------------------------ breakage_indexes
\* Faulty variant: a junction is legal as soon as its left Position is unused.
RECURSIVE breakage_loop_p1(_, _, _, _)
breakage_loop_p1(chromosome, me, i, result) ==
    IF i >= Len(chromosome) - 1 THEN result
    ELSE LET p1 == end_position(At(chromosome, i))
         IN breakage_loop_p1(chromosome, me, i + 1,
                IF p1 \notin me THEN Append(result, i + 1) ELSE result)

RECURSIVE breakage_loop(_, _, _, _)
breakage_loop(chromosome, me, i, result) ==
    IF i >= Len(chromosome) - 1 THEN result
    ELSE LET p1 == end_position(At(chromosome, i))
             p2 == start_position(At(chromosome, i + 1))
         IN breakage_loop(chromosome, me, i + 1,
                IF p1 \notin me /\ p2 \notin me THEN Append(result, i + 1) ELSE result)

\* Faulty variant: the loop appends i, not i + 1.
RECURSIVE breakage_loop_off(_, _, _, _)
breakage_loop_off(chromosome, me, i, result) ==
    IF i >= Len(chromosome) - 1 THEN result
    ELSE LET p1 == end_position(At(chromosome, i))
             p2 == start_position(At(chromosome, i + 1))
         IN breakage_loop_off(chromosome, me, i + 1,
                IF p1 \notin me /\ p2 \notin me /\ i > 0 THEN Append(result, i)
                ELSE result)

breakage_indexes_off(chromosome, config) ==
    IF Len(chromosome) = 0 THEN <<>>
    ELSE LET me == config.mutated_extremities
             r0 == IF start_position(At(chromosome, 0)) \notin me THEN <<0>> ELSE <<>>
             r1 == breakage_loop_off(chromosome, me, 0, r0)
         IN IF end_position(At(chromosome, Len(chromosome) - 1)) \notin me
            THEN Append(r1, Len(chromosome)) ELSE r1

breakage_indexes(chromosome, config) ==
    IF Len(chromosome) = 0 THEN <<>>
    ELSE LET me == config.mutated_extremities
             r0 == IF start_position(At(chromosome, 0)) \notin me THEN <<0>> ELSE <<>>
             r1 == breakage_loop(chromosome, me, 0, r0)
         IN IF end_position(At(chromosome, Len(chromosome) - 1)) \notin me
            THEN Append(r1, Len(chromosome)) ELSE r1

\* ---------------------------------------------------------- random source
\* np.random: rng = [seeded, seed, pos]. Unseeded, a draw may be any value of its
\* range. Seeded, the stream is a fixed function of the seed and the draw at
\* stream position pos is that function's value reduced to the range.
MaxSeed == 6
\* Draws after which a seeded run is no longer followed (a sampling loop may go
\* round for ever).
MaxDraws == 16

Stream(seed, pos) == (seed * 7 + pos * 5 + seed * pos * pos + (pos \div 3) * 11) % 60

\* np.random.randint(low, high) as the n-th draw after rng.pos; callers check
\* low < high first (numpy raises ValueError otherwise).
randint(rng, n, low, high) ==
    IF rng.seeded THEN {low + (Stream(rng.seed, rng.pos + n) % (high - low))}
    ELSE low..(high - 1)

\* np.random.choice(a) with uniform probabilities.
choice(rng, n, a) == {At(a, i) : i \in randint(rng, n, 0, Len(a))}

Advance(rng, draws) == IF rng.seeded THEN [rng EXCEPT !.pos = @ + draws] ELSE rng

\* ------------------------------------------------------------- generators
\* Outcomes of one pass of a generator's body for one sampled chromosome (pair):
\* it returns a Mutation, goes round its while loop again, or raises. draws is
\* the number of values the pass took from the random source.
Return(m, draws) == [kind |-> "return", mutation |-> m, draws |-> draws]
Retry(sample, draws) == [kind |-> "retry", sample |-> sample, draws |-> draws]
Raise(e) == [kind |-> "raise", error |-> e, draws |-> 0]

\* The arm filter `if br[0] == 0: br = br[1:]; if br[-1] == len: br = br[:-1]`,
\* skipped when the policy flag is set. Indexing an empty list raises IndexError.
\* Faulty variant: only index 0 is dropped, index len stays.
arm_filter_first(br_indexes, length, arm_flag) ==
    IF arm_flag THEN [raised |-> FALSE, br |-> br_indexes]
    ELSE IF Len(br_indexes) = 0 THEN [raised |-> TRUE, br |-> br_indexes]
    ELSE LET b1 == IF At(br_indexes, 0) = 0 THEN DropFirst(br_indexes) ELSE br_indexes
         IN IF Len(b1) = 0 THEN [raised |-> TRUE, br |-> b1]
            ELSE [raised |-> FALSE, br |-> b1]

arm_filter(br_indexes, length, arm_flag) ==
    IF arm_flag THEN [raised |-> FALSE, br |-> br_indexes]
    ELSE IF Len(br_indexes) = 0 THEN [raised |-> TRUE, br |-> br_indexes]
    ELSE LET b1 == IF At(br_indexes, 0) = 0 THEN DropFirst(br_indexes) ELSE br_indexes
         IN IF Len(b1) = 0 THEN [raised |-> TRUE, br |-> b1]
            ELSE [raised |-> FALSE,
                  br |-> IF At(b1, Len(b1) - 1) = length THEN DropLast(b1) ELSE b1]

\* Faulty variant: sp1 is the start of the segment before the interval.
interval_positions_inner(chromosome, start_index, end_index) ==
    LET sp1 == IF start_index = 0 THEN None
               ELSE start_position(At(chromosome, start_index - 1))
        sp2 == start_position(At(chromosome, start_index))
        ep1 == IF end_index = Len(chromosome)
               THEN end_position(At(chromosome, Len(chromosome) - 1))
               ELSE end_position(At(chromosome, end_index - 1))
        ep2 == IF end_index = Len(chromosome) THEN None
               ELSE start_position(At(chromosome, end_index))
    IN <<sp1, sp2, ep1, ep2>>

\* [sp1, sp2, ep1, ep2] of the interval [start, end) of a chromosome.
interval_positions(chromosome, start_index, end_index) ==
    LET sp1 == IF start_index = 0 THEN None
               ELSE end_position(At(chromosome, start_index - 1))
        sp2 == start_position(At(chromosome, start_index))
        ep1 == IF end_index = Len(chromosome)
               THEN end_position(At(chromosome, Len(chromosome) - 1))
               ELSE end_position(At(chromosome, end_index - 1))
        ep2 == IF end_index = Len(chromosome) THEN None
               ELSE start_position(At(chromosome, end_index))
    IN <<sp1, sp2, ep1, ep2>>

ReversalMutation(chromosome_index, start_index, end_index, positions) ==
    [mutation_type |-> REVERSAL,
     mutation_data |-> [chromosome_index |-> chromosome_index,
                        reversal_start_index |-> start_index,
                        reversal_end_index |-> end_index,
                        positions |-> positions]]

DuplicationMutation(chromosome_index, start_index, end_index, positions) ==
    [mutation_type |-> DUPLICATION,
     mutation_data |-> [chromosome_index |-> chromosome_index,
                        duplication_start_index |-> start_index,
                        duplication_end_index |-> end_index,
                        positions |-> positions]]

DeletionMutation(chromosome_index, start_index, end_index, positions) ==
    [mutation_type |-> DELETION,
     mutation_data |-> [chromosome_index |-> chromosome_index,
                        deletion_start_index |-> start_index,
                        deletion_end_index |-> end_index,
                        positions |-> positions]]

\* The part after the while loop (the second and third draw of the pass): the
\* start is drawn from all but the last candidate, the end from those after it.
Mutation(mutation_type, chromosome_index, start_index, end_index, positions) ==
    CASE mutation_type = REVERSAL ->
            ReversalMutation(chromosome_index, start_index, end_index, positions)
      [] mutation_type = DUPLICATION ->
            DuplicationMutation(chromosome_index, start_index, end_index, positions)
      [] mutation_type = DELETION ->
            DeletionMutation(chromosome_index, start_index, end_index, positions)

\* Faulty variant: the end is the candidate that follows the start.
interval_choices_adjacent(mutation_type, chromosome_index, chromosome, br_indexes, rng) ==
    UNION {
        {Return(Mutation(mutation_type, chromosome_index, At(br_indexes, start_i),
                         At(br_indexes, end_i),
                         interval_positions(chromosome, At(br_indexes, start_i),
                                            At(br_indexes, end_i))), 3) :
            end_i \in {start_i + 1}}
        : start_i \in randint(rng, 1, 0, Len(br_indexes) - 1)}

interval_choices(mutation_type, chromosome_index, chromosome, br_indexes, rng) ==
    UNION {
        {Return(Mutation(mutation_type, chromosome_index, At(br_indexes, start_i),
                         At(br_indexes, end_i),
                         interval_positions(chromosome, At(br_indexes, start_i),
                                            At(br_indexes, end_i))), 3) :
            end_i \in randint(rng, 2, start_i + 1, Len(br_indexes))}
        : start_i \in randint(rng, 1, 0, Len(br_indexes) - 1)}

generate_reversal(genome, config, rng) ==
    IF Len(genome) = 0 THEN {Raise("ValueError")}
    ELSE UNION {
        LET chromosome == At(genome, chromosome_index)
            f == arm_filter(breakage_indexes(chromosome, config), Len(chromosome),
                            config.arm_reversal)
        IN IF f.raised THEN {Raise("IndexError")}
           ELSE IF Len(f.br) >= 2
                THEN interval_choices(REVERSAL, chromosome_index, chromosome,
                                      f.br, rng)
                ELSE {Retry(<<chromosome_index>>, 1)}
        : chromosome_index \in randint(rng, 0, 0, Len(genome))}

\* Faulty variant: the candidates pass through the arm filter of deletions.
generate_duplication_arm(genome, config, rng) ==
    IF Len(genome) = 0 THEN {Raise("ValueError")}
    ELSE UNION {
        LET chromosome == At(genome, chromosome_index)
            f == arm_filter(breakage_indexes(chromosome, config), Len(chromosome),
                            config.arm_deletion)
        IN IF f.raised THEN {Raise("IndexError")}
           ELSE IF Len(f.br) >= 2
                THEN interval_choices(DUPLICATION, chromosome_index, chromosome,
                                      f.br, rng)
                ELSE {Retry(<<chromosome_index>>, 1)}
        : chromosome_index \in randint(rng, 0, 0, Len(genome))}

generate_duplication(genome, config, rng) ==
    IF Len(genome) = 0 THEN {Raise("ValueError")}
    ELSE UNION {
        LET chromosome == At(genome, chromosome_index)
            br_indexes == breakage_indexes(chromosome, config)
        IN IF Len(br_indexes) >= 2
           THEN interval_choices(DUPLICATION, chromosome_index, chromosome,
                                 br_indexes, rng)
           ELSE {Retry(<<chromosome_index>>, 1)}
        : chromosome_index \in randint(rng, 0, 0, Len(genome))}

generate_deletion(genome, config, rng) ==
    IF Len(genome) = 0 THEN {Raise("ValueError")}
    ELSE UNION {
        LET chromosome == At(genome, chromosome_index)
            f == arm_filter(breakage_indexes(chromosome, config), Len(chromosome),
                            config.arm_deletion)
        IN IF f.raised THEN {Raise("IndexError")}
           ELSE IF Len(f.br) >= 2
                THEN interval_choices(DELETION, chromosome_index, chromosome,
                                      f.br, rng)
                ELSE {Retry(<<chromosome_index>>, 1)}
        : chromosome_index \in randint(rng, 0, 0, Len(genome))}

\* Counter(labels).most_common(n=1)[0]: the (label, count) pair of the most
\* frequent label, the first met among equally frequent ones.
Count(labels, l) == Cardinality({i \in DOMAIN labels : labels[i] = l})
most_common(labels) ==
    LET first(l) == CHOOSE i \in DOMAIN labels :
                        labels[i] = l /\ \A j \in DOMAIN labels : labels[j] = l => i <= j
        best == CHOOSE l \in Range(labels) :
                    \A m \in Range(labels) :
                        \/ Count(labels, l) > Count(labels, m)
                        \/ Count(labels, l) = Count(labels, m) /\ first(l) <= first(m)
    IN <<best, Count(labels, best)>>

\* What the call evaluates to: "False" when the most common (label, count) pairs
\* differ, and otherwise it falls off the end and yields "None"; an empty
\* chromosome makes most_common(n=1)[0] raise.
chromosomes_are_mates(chromosome1, chromosome2) ==
    IF Len(chromosome1) = 0 \/ Len(chromosome2) = 0 THEN "IndexError"
    ELSE LET chr1_chr == [i \in DOMAIN chromosome1 |-> chromosome1[i].chromosome]
             chr2_chr == [i \in DOMAIN chromosome2 |-> chromosome2[i].chromosome]
         IN IF most_common(chr1_chr) # most_common(chr2_chr) THEN "False" ELSE "None"

\* Python truth of a value returned by chromosomes_are_mates.
Truthy(v) == v = "True"

\* [p1, p2] around a split index of a chromosome.
translocation_positions(chromosome, index) ==
    IF index = 0 THEN <<None, start_position(At(chromosome, index))>>
    ELSE IF index = Len(chromosome)
         THEN <<end_position(At(chromosome, index - 1)), None>>
         ELSE <<end_position(At(chromosome, index - 1)),
                start_position(At(chromosome, index))>>

TranslocationMutation(chr1_index, chr2_index, chr1_transl_index, chr2_transl_index, cc, positions) ==
    [mutation_type |-> TRANSLOCATION,
     mutation_data |-> [chr1_index |-> chr1_index,
                        chr2_index |-> chr2_index,
                        chr1_transl_index |-> chr1_transl_index,
                        chr2_transl_index |-> chr2_transl_index,
                        cc |-> cc,
                        positions |-> positions]]

\* Faulty variant: a pair of equal indices is not sampled again.
translocation_pass_same(genome, config, rng, i1, i2) ==
    LET chromosome_1 == At(genome, i1)
        chromosome_2 == At(genome, i2)
        mates == IF config.homozygous THEN "False"
                 ELSE chromosomes_are_mates(chromosome_1, chromosome_2)
        f1 == arm_filter(breakage_indexes(chromosome_1, config), Len(chromosome_1),
                         config.chr1_empty_arm)
        f2 == arm_filter(breakage_indexes(chromosome_2, config), Len(chromosome_2),
                         config.chr2_empty_arm)
    IN IF mates = "IndexError" THEN {Raise("IndexError")}
       ELSE IF Truthy(mates) THEN {Retry(<<i1, i2>>, 2)}
       ELSE IF f1.raised \/ f2.raised THEN {Raise("IndexError")}
       ELSE IF ~(Len(f1.br) >= 1 /\ Len(f2.br) >= 1) THEN {Retry(<<i1, i2>>, 2)}
       ELSE IF Len(f1.br) - 1 <= 0 \/ Len(f2.br) - 1 <= 0 THEN {Raise("ValueError")}
       ELSE {Return(TranslocationMutation(i1, i2, chr1_index, chr2_index, cc,
                        translocation_positions(chromosome_1, chr1_index)
                            \o translocation_positions(chromosome_2, chr2_index)), 5) :
                chr1_index \in randint(rng, 2, 0, Len(f1.br) - 1),
                chr2_index \in randint(rng, 3, 0, Len(f2.br) - 1),
                cc \in choice(rng, 4, <<TRUE, FALSE>>)}

\* One pass for the sampled pair <<i1, i2>> (two draws). After the loop,
\* np.random.randint(low=0, high=n - 1) raises ValueError unless n >= 2 and
\* otherwise returns one of 0..n-2, which the code takes as the split index itself.
translocation_pass(genome, config, rng, i1, i2) ==
    IF i1 = i2 THEN {Retry(<<i1, i2>>, 2)}
    ELSE
    LET chromosome_1 == At(genome, i1)
        chromosome_2 == At(genome, i2)
        mates == IF config.homozygous THEN "False"
                 ELSE chromosomes_are_mates(chromosome_1, chromosome_2)
        f1 == arm_filter(breakage_indexes(chromosome_1, config), Len(chromosome_1),
                         config.chr1_empty_arm)
        f2 == arm_filter(breakage_indexes(chromosome_2, config), Len(chromosome_2),
                         config.chr2_empty_arm)
    IN IF mates = "IndexError" THEN {Raise("IndexError")}
       ELSE IF Truthy(mates) THEN {Retry(<<i1, i2>>, 2)}
       ELSE IF f1.raised \/ f2.raised THEN {Raise("IndexError")}
       ELSE IF ~(Len(f1.br) >= 1 /\ Len(f2.br) >= 1) THEN {Retry(<<i1, i2>>, 2)}
       ELSE IF Len(f1.br) - 1 <= 0 \/ Len(f2.br) - 1 <= 0 THEN {Raise("ValueError")}
       ELSE {Return(TranslocationMutation(i1, i2, chr1_index, chr2_index, cc,
                        translocation_positions(chromosome_1, chr1_index)
                            \o translocation_positions(chromosome_2, chr2_index)), 5) :
                chr1_index \in randint(rng, 2, 0, Len(f1.br) - 1),
                chr2_index \in randint(rng, 3, 0, Len(f2.br) - 1),
                cc \in choice(rng, 4, <<TRUE, FALSE>>)}

generate_translocation(genome, config, rng) ==
    IF Len(genome) = 0 THEN {Raise("ValueError")}
    ELSE UNION {translocation_pass(genome, config, rng, i1, i2) :
                    i1 \in randint(rng, 0, 0, Len(genome)),
                    i2 \in randint(rng, 1, 0, Len(genome))}

\* MUTATION_TYPES_to_GENERATING_FUNCTIONS and generate_mutation.
GeneratingTypes == {REVERSAL, DELETION, DUPLICATION, TRANSLOCATION}
generating_function(mutation_type, genome, config, rng) ==
    CASE mutation_type = REVERSAL -> generate_reversal(genome, config, rng)
      [] mutation_type = DELETION -> generate_deletion(genome, config, rng)
      [] mutation_type = DUPLICATION -> generate_duplication(genome, config, rng)
      [] mutation_type = TRANSLOCATION -> generate_translocation(genome, config, rng)

\* Faulty variant: a type the table does not hold falls back to a default generator.
generate_mutation_default(mutation_type, genome, mutations_config, rng) ==
    IF mutation_type \notin GeneratingTypes
    THEN generate_reversal(genome, mutations_config, rng)
    ELSE generating_function(mutation_type, genome, mutations_config, rng)

generate_mutation(mutation_type, genome, mutations_config, rng) ==
    IF mutation_type \notin GeneratingTypes THEN {Raise("ValueError")}
    ELSE generating_function(mutation_type, genome, mutations_config, rng)

\* ------------------------------------------------ segment-editing primitives
\* reverse_segment: the segment with its orientation flipped.
reverse_segment(segment) == [segment EXCEPT !.is_reversed = ~@]

Reversed(s) == [i \in 1..Len(s) |-> s[Len(s) + 1 - i]]
Flipped(s) == [i \in 1..Len(s) |-> reverse_segment(s[i])]

\* reverse_segments: segments [start, end) in reverse order, each flipped.
reverse_segments(chromosome, start_segment_index, end_segment_index) ==
    Slice(chromosome, 0, start_segment_index)
        \o Reversed(Flipped(Slice(chromosome, start_segment_index, end_segment_index)))
        \o Slice(chromosome, end_segment_index, Len(chromosome))

\* duplicate_segments: a second copy of segments [start, end) right after them.
duplicate_segments(chromosome, start_segment_index, end_segment_index) ==
    Slice(chromosome, 0, end_segment_index)
        \o Slice(chromosome, start_segment_index, end_segment_index)
        \o Slice(chromosome, end_segment_index, Len(chromosome))

\* delete_segments: the chromosome without segments [start, end).
delete_segments(chromosome, start_segment_index, end_segment_index) ==
    Slice(chromosome, 0, start_segment_index)
        \o Slice(chromosome, end_segment_index, Len(chromosome))

\* translocation_segments: both chromosomes are cut at their split index and the
\* arms are exchanged; cc tells which arms are joined.
translocation_segments(chromosome1, chromosome2, chromosome1_segment_index, chromosome2_segment_index, cc) ==
    LET chr1_p1 == Slice(chromosome1, 0, chromosome1_segment_index)
        chr1_p2 == Slice(chromosome1, chromosome1_segment_index, Len(chromosome1))
        chr2_p1 == Slice(chromosome2, 0, chromosome2_segment_index)
        chr2_p2 == Slice(chromosome2, chromosome2_segment_index, Len(chromosome2))
    IN IF cc THEN <<chr1_p1 \o chr2_p2, chr2_p1 \o chr1_p2>>
       ELSE <<chr1_p1 \o Reversed(Flipped(chr2_p1)), Reversed(Flipped(chr1_p2)) \o chr2_p2>>

\* ------------------------------------------------------------------ heap
\* Faulty variant: no copy is made, the same object is handed back.
deepcopy_alias(h, ref) == [heap |-> h, ref |-> ref]

\* deepcopy of the object ref of heap h: a new object with the same content.
deepcopy(h, ref) == [heap |-> Append(h, h[ref]), ref |-> Len(h) + 1]

\* new_genome[chr_index] = new_chromosome: the list object is changed in place.
StoreChromosome(h, genome, chr_index, new_chromosome) ==
    [h EXCEPT ![genome] = SetAt(@, chr_index, new_chromosome)]

\* --------------------------------------------------------------- appliers
\* Each applier takes the genome heap, the reference of the genome passed in and
\* the mutation, and yields the heap after the call and the returned reference.
\* Faulty variant: the start and end index are passed the wrong way round.
apply_reversal_swapped(h, genome, mutation) ==
    LET c == deepcopy(h, genome)
        new_genome == c.ref
        chr_index == mutation.mutation_data.chromosome_index
        chromosome == At(c.heap[new_genome], chr_index)
        rev_start_index == mutation.mutation_data.reversal_start_index
        rev_end_index == mutation.mutation_data.reversal_end_index
        new_chromosome == reverse_segments(chromosome, rev_end_index, rev_start_index)
    IN [heap |-> StoreChromosome(c.heap, new_genome, chr_index, new_chromosome),
        result |-> new_genome]

\* Faulty variant: the reversal is done on the genome passed in.
apply_reversal_inplace(h, genome, mutation) ==
    LET new_genome == genome
        chr_index == mutation.mutation_data.chromosome_index
        chromosome == At(h[new_genome], chr_index)
        rev_start_index == mutation.mutation_data.reversal_start_index
        rev_end_index == mutation.mutation_data.reversal_end_index
        new_chromosome == reverse_segments(chromosome, rev_start_index, rev_end_index)
    IN [heap |-> StoreChromosome(h, new_genome, chr_index, new_chromosome),
        result |-> new_genome]

apply_reversal(h, genome, mutation) ==
    LET c == deepcopy(h, genome)
        new_genome == c.ref
        chr_index == mutation.mutation_data.chromosome_index
        chromosome == At(c.heap[new_genome], chr_index)
        rev_start_index == mutation.mutation_data.reversal_start_index
        rev_end_index == mutation.mutation_data.reversal_end_index
        new_chromosome == reverse_segments(chromosome, rev_start_index, rev_end_index)
    IN [heap |-> StoreChromosome(c.heap, new_genome, chr_index, new_chromosome),
        result |-> new_genome]

apply_duplication(h, genome, mutation) ==
    LET c == deepcopy(h, genome)
        new_genome == c.ref
        chr_index == mutation.mutation_data.chromosome_index
        chromosome == At(c.heap[new_genome], chr_index)
        dup_start_index == mutation.mutation_data.duplication_start_index
        dup_end_index == mutation.mutation_data.duplication_end_index
        new_chromosome == duplicate_segments(chromosome, dup_start_index, dup_end_index)
    IN [heap |-> StoreChromosome(c.heap, new_genome, chr_index, new_chromosome),
        result |-> new_genome]

\* Faulty variant: the shortened chromosome is stored at index 0, whichever
\* chromosome the deletion is on.
apply_deletion_first(h, genome, mutation) ==
    LET c == deepcopy(h, genome)
        new_genome == c.ref
        chr_index == mutation.mutation_data.chromosome_index
        chromosome == At(c.heap[new_genome], chr_index)
        del_start_index == mutation.mutation_data.deletion_start_index
        del_end_index == mutation.mutation_data.deletion_end_index
        new_chromosome == delete_segments(chromosome, del_start_index, del_end_index)
    IN [heap |-> StoreChromosome(c.heap, new_genome, 0, new_chromosome),
        result |-> new_genome]

\* Faulty variant: the last segment of the interval is left in place.
apply_deletion_off(h, genome, mutation) ==
    LET c == deepcopy(h, genome)
        new_genome == c.ref
        chr_index == mutation.mutation_data.chromosome_index
        chromosome == At(c.heap[new_genome], chr_index)
        del_start_index == mutation.mutation_data.deletion_start_index
        del_end_index == mutation.mutation_data.deletion_end_index
        new_chromosome == delete_segments(chromosome, del_start_index, del_end_index - 1)
    IN [heap |-> StoreChromosome(c.heap, new_genome, chr_index, new_chromosome),
        result |-> new_genome]

apply_deletion(h, genome, mutation) ==
    LET c == deepcopy(h, genome)
        new_genome == c.ref
        chr_index == mutation.mutation_data.chromosome_index
        chromosome == At(c.heap[new_genome], chr_index)
        del_start_index == mutation.mutation_data.deletion_start_index
        del_end_index == mutation.mutation_data.deletion_end_index
        new_chromosome == delete_segments(chromosome, del_start_index, del_end_index)
    IN [heap |-> StoreChromosome(c.heap, new_genome, chr_index, new_chromosome),
        result |-> new_genome]

\* Faulty variant: the second new chromosome is never stored.
apply_translocation_one(h, genome, mutation) ==
    LET c == deepcopy(h, genome)
        new_genome == c.ref
        chr1_index == mutation.mutation_data.chr1_index
        chr2_index == mutation.mutation_data.chr2_index
        chromosome_1 == At(c.heap[new_genome], chr1_index)
        chromosome_2 == At(c.heap[new_genome], chr2_index)
        chr1_trans_index == mutation.mutation_data.chr1_transl_index
        chr2_trans_index == mutation.mutation_data.chr2_transl_index
        cc == mutation.mutation_data.cc
        new == translocation_segments(chromosome_1, chromosome_2, chr1_trans_index,
                                      chr2_trans_index, cc)
    IN [heap |-> StoreChromosome(c.heap, new_genome, chr1_index, new[1]),
        result |-> new_genome]

apply_translocation(h, genome, mutation) ==
    LET c == deepcopy(h, genome)
        new_genome == c.ref
        chr1_index == mutation.mutation_data.chr1_index
        chr2_index == mutation.mutation_data.chr2_index
        chromosome_1 == At(c.heap[new_genome], chr1_index)
        chromosome_2 == At(c.heap[new_genome], chr2_index)
        chr1_trans_index == mutation.mutation_data.chr1_transl_index
        chr2_trans_index == mutation.mutation_data.chr2_transl_index
        cc == mutation.mutation_data.cc
        new == translocation_segments(chromosome_1, chromosome_2, chr1_trans_index,
                                      chr2_trans_index, cc)
    IN [heap |-> StoreChromosome(StoreChromosome(c.heap, new_genome, chr1_index, new[1]),
                                 new_genome, chr2_index, new[2]),
        result |-> new_genome]

\* MUTATION_TYPES_to_MUTATING_FUNCTIONS and apply_mutation. A call that raises
\* returns nothing and leaves the heap as it was.
MutatingTypes == {REVERSAL, DELETION, DUPLICATION, TRANSLOCATION}
mutating_function(h, genome, mutation) ==
    CASE mutation.mutation_type = REVERSAL -> apply_reversal(h, genome, mutation)
      [] mutation.mutation_type = DELETION -> apply_deletion(h, genome, mutation)
      [] mutation.mutation_type = DUPLICATION -> apply_duplication(h, genome, mutation)
      [] mutation.mutation_type = TRANSLOCATION -> apply_translocation(h, genome, mutation)

apply_mutation(h, genome, mutation) ==
    IF mutation.mutation_type \notin MutatingTypes
    THEN [heap |-> h, result |-> 0, error |-> "ValueError"]
    ELSE LET r == mutating_function(h, genome, mutation)
         IN [heap |-> r.heap, result |-> r.result, error |-> "none"]

\* ------------------------------------------------------------------ state
VARIABLES
    heap,              \* genome objects: heap[ref] is the content of genome ref
    configs,           \* configuration objects: configs[ref]
    rng,               \* the random source np.random
    starting_genome,   \* argument: reference of the caller's genome
    mutation_cnt,      \* argument
    mutations_config,  \* argument: reference of the configuration object
    current_genome,    \* local: reference
    history,           \* local: [genomes: references, mutations]
    k,                 \* completed iterations of the for loop
    mutation_type,     \* local of the loop body
    mutation,          \* local of the loop body
    sample,            \* chromosome (pair) last sampled by the running generator
    pc,                \* where the call stands: "call", "loop", "generate", "apply",
                       \* "record", "done", "error"
    error,             \* the exception that ended the call, "none" otherwise
    replay,            \* the caller: which run this is and what the first returned
    ref_acnp,          \* reference adjacency copy-number profile
    inf_acnp,          \* inferred adjacency copy-number profile
    result             \* the last call on the profiles and what it returned

args == <<starting_genome, mutation_cnt, mutations_config>>
profiles == <<ref_acnp, inf_acnp, result>>
vars == <<heap, configs, rng, starting_genome, mutation_cnt, mutations_config,
          current_genome, history, k, mutation_type, mutation, sample, pc, error,
          replay, profiles>>

NoMutation == [mutation_type |-> "NONE", mutation_data |-> [positions |-> <<>>]]

\* MUTATION_CONFIG with the given policy flags; the key "mutated_extremities" is
\* absent (has_me = FALSE) until generate_mutated_genome creates it.
MutationConfig(arm_deletion, arm_reversal, chr1_empty_arm, chr2_empty_arm, homozygous) ==
    [mut_types |-> <<REVERSAL, DUPLICATION, DELETION, TRANSLOCATION>>,
     arm_deletion |-> arm_deletion,
     arm_reversal |-> arm_reversal,
     chr1_empty_arm |-> chr1_empty_arm,
     chr2_empty_arm |-> chr2_empty_arm,
     homozygous |-> homozygous,
     has_me |-> FALSE,
     mutated_extremities |-> {}]

MUTATION_CONFIG == MutationConfig(FALSE, FALSE, FALSE, FALSE, FALSE)

\* The configurations a caller passes: the module's default (no policy flag set)
\* and the one with every policy flag set.
Configs == {MUTATION_CONFIG, MutationConfig(TRUE, TRUE, TRUE, TRUE, TRUE)}

\* The starting genomes: SimulationManager.initial_genome.
StartingGenomes ==
    {g \in {generate_chromosomes(chrs_size, chrs_cnt, ab) :
                chrs_size \in 1..ChrsSize, chrs_cnt \in 1..MaxChromosomes,
                ab \in BOOLEAN} :
        Len(g) <= MaxChromosomes}

\* The calls followed: a starting genome and a mutation_cnt.
Calls ==
    {c \in StartingGenomes \X (0..MaxMutationCnt) :
        Len(c[1]) * Len(c[1][1]) + 2 * c[2] <= MaxScope}

ME == configs[mutations_config].mutated_extremities
CurrentGenome == heap[current_genome]
\* The history with its genome references replaced by the genomes they name.
Snapshots(h, hist) ==
    [genomes |-> [i \in DOMAIN hist.genomes |-> h[hist.genomes[i]]],
     mutations |-> hist.mutations]

Locals ==
    /\ starting_genome = 1
    /\ mutations_config = 1
    /\ current_genome = 0
    /\ history = [genomes |-> <<>>, mutations |-> <<>>]
    /\ k = 0
    /\ mutation_type = "NONE"
    /\ mutation = NoMutation
    /\ sample = <<>>
    /\ error = "none"
    /\ replay = [run |-> 1, shared |-> FALSE, first |-> <<>>]

\* No call on the profiles was made.
NoResult == [call |-> "none"]
\* A caller that holds no adjacency copy-number profile.
NoProfiles ==
    /\ ref_acnp = <<>>
    /\ inf_acnp = <<>>
    /\ result = NoResult

\* A caller about to call generate_mutated_genome(starting_genome, mutation_cnt,
\* mutations_config), the random source unseeded.
Init ==
    /\ \E call \in Calls : heap = <<call[1]>> /\ mutation_cnt = call[2]
    /\ \E c \in Configs : configs = <<c>>
    /\ rng = [seeded |-> FALSE, seed |-> 0, pos |-> 0]
    /\ pc = "call"
    /\ Locals
    /\ NoProfiles

\* Faulty variant: every call starts with an empty set.
CreateME_reset(cs, ref) ==
    [cs EXCEPT ![ref].has_me = TRUE, ![ref].mutated_extremities = {}]

\* generate_mutated_genome up to its for loop.
CreateME(cs, ref) ==
    IF cs[ref].has_me THEN cs
    ELSE [cs EXCEPT ![ref].has_me = TRUE, ![ref].mutated_extremities = {}]

Start ==
    /\ pc = "call"
    /\ configs' = CreateME(configs, mutations_config)
    /\ LET c == deepcopy(heap, starting_genome)
       IN /\ heap' = c.heap
          /\ current_genome' = c.ref
          /\ history' = [genomes |-> <<c.ref>>, mutations |-> <<>>]
    /\ k' = 0
    /\ pc' = "loop"
    /\ UNCHANGED <<profiles, args, rng, mutation_type, mutation, sample, error, replay>>

\* Faulty variant: the loop runs once more.
LoopContinues_off == k <= mutation_cnt

\* for _ in range(mutation_cnt)
LoopContinues == k < mutation_cnt

\* np.random.choice(a=mut_types, p=mutations_config.get("mut_prob")): the key
\* "mut_prob" is absent, so the draw is uniform over mut_types.
ChooseType ==
    /\ pc = "loop"
    /\ LoopContinues
    /\ mutation_type' \in choice(rng, 0, configs[mutations_config].mut_types)
    /\ rng' = Advance(rng, 1)
    /\ sample' = <<>>
    /\ pc' = "generate"
    /\ UNCHANGED <<profiles, args, heap, configs, current_genome, history, k, mutation, error,
                   replay>>

Outcomes ==
    generate_mutation(mutation_type, CurrentGenome, configs[mutations_config], rng)

\* The generator returns: history["mutations"].append(mutation).
GenerateReturn ==
    /\ pc = "generate"
    /\ \E o \in Outcomes :
        /\ o.kind = "return"
        /\ mutation' = o.mutation
        /\ history' = [history EXCEPT !.mutations = Append(@, o.mutation)]
        /\ rng' = Advance(rng, o.draws)
    /\ pc' = "apply"
    /\ UNCHANGED <<profiles, args, heap, configs, current_genome, k, mutation_type, sample,
                   error, replay>>

\* The sampled chromosome (pair) is infeasible: the while loop goes round again.
GenerateRetry ==
    /\ pc = "generate"
    /\ rng.seeded => rng.pos < MaxDraws
    /\ \E o \in Outcomes :
        /\ o.kind = "retry"
        /\ sample' = o.sample
        /\ rng' = Advance(rng, o.draws)
    /\ UNCHANGED <<profiles, args, heap, configs, current_genome, history, k, mutation_type,
                   mutation, pc, error, replay>>

\* The generator (or the dispatch) raises: the call ends with the exception.
GenerateRaise ==
    /\ pc = "generate"
    /\ \E o \in Outcomes :
        /\ o.kind = "raise"
        /\ error' = o.error
    /\ pc' = "error"
    /\ UNCHANGED <<profiles, args, heap, configs, rng, current_genome, history, k,
                   mutation_type, mutation, sample, replay>>

\* current_genome = apply_mutation(current_genome, mutation)
Apply ==
    /\ pc = "apply"
    /\ LET r == apply_mutation(heap, current_genome, mutation)
       IN /\ heap' = r.heap
          /\ error' = r.error
          /\ current_genome' = IF r.error = "none" THEN r.result ELSE current_genome
          /\ pc' = IF r.error = "none" THEN "record" ELSE "error"
    /\ UNCHANGED <<profiles, args, configs, rng, history, k, mutation_type, mutation, sample,
                   replay>>

NonNull(positions) == {p \in Range(positions) : p # None}

\* Faulty variant: only the start boundary (sp1, sp2) is added.
AddPositions_start(cs, ref, positions) ==
    [cs EXCEPT ![ref].mutated_extremities = @ \cup NonNull(SubSeq(positions, 1, 2))]

\* Faulty variant: the set is replaced by the mutation's positions.
AddPositions_replace(cs, ref, positions) ==
    [cs EXCEPT ![ref].mutated_extremities = NonNull(positions)]

\* Faulty variant: only the end boundary (ep1, ep2) is added.
AddPositions_end(cs, ref, positions) ==
    [cs EXCEPT ![ref].mutated_extremities = @ \cup NonNull(SubSeq(positions, 3, 4))]

\* for p in positions: if p is not None: mutations_config[ME].add(p)
AddPositions(cs, ref, positions) ==
    [cs EXCEPT ![ref].mutated_extremities = @ \cup NonNull(positions)]

\* Faulty variant: the snapshot appended is the genome before the mutation.
Record_stale ==
    /\ pc = "record"
    /\ configs' = AddPositions(configs, mutations_config, mutation.mutation_data.positions)
    /\ history' = [history EXCEPT
                    !.genomes = Append(@, history.genomes[Len(history.genomes)])]
    /\ k' = k + 1
    /\ pc' = "loop"
    /\ UNCHANGED <<profiles, args, heap, rng, current_genome, mutation_type, mutation, sample,
                   error, replay>>

\* The positions loop and history["genomes"].append(current_genome).
Record ==
    /\ pc = "record"
    /\ configs' = AddPositions(configs, mutations_config, mutation.mutation_data.positions)
    /\ history' = [history EXCEPT !.genomes = Append(@, current_genome)]
    /\ k' = k + 1
    /\ pc' = "loop"
    /\ UNCHANGED <<profiles, args, heap, rng, current_genome, mutation_type, mutation, sample,
                   error, replay>>

\* return history
Finish ==
    /\ pc = "loop"
    /\ ~LoopContinues
    /\ pc' = "done"
    /\ UNCHANGED <<profiles, args, heap, configs, rng, current_genome, history, k,
                   mutation_type, mutation, sample, error, replay>>

Next ==
    \/ Start
    \/ ChooseType
    \/ GenerateReturn
    \/ GenerateRetry
    \/ GenerateRaise
    \/ Apply
    \/ Record
    \/ Finish

Spec == Init /\ [][Next]_vars

\* The run under fair random choice: np.random.randint draws every chromosome
\* index again and again while a sampling loop goes round, so a generator some
\* of whose samples return does not go round for ever.
SpecFair == Init /\ [][Next]_vars /\ WF_vars(GenerateReturn)

\* ----------------------------------------------------------------- replay
\* A caller that seeds the random source, keeps a deepcopy of its configuration
\* (configs[2]), calls generate_mutated_genome, seeds the source with the same
\* seed and calls again with the same starting genome and mutation_cnt, passing
\* either the configuration object of the first call or the copy.
InitReplay ==
    /\ \E call \in Calls : heap = <<call[1]>> /\ mutation_cnt = call[2]
    /\ \E c \in Configs : configs = <<c, c>>
    /\ \E seed \in 1..MaxSeed : rng = [seeded |-> TRUE, seed |-> seed, pos |-> 0]
    /\ pc = "call"
    /\ Locals
    /\ NoProfiles

CallAgain ==
    /\ pc = "done"
    /\ replay.run = 1
    /\ \E shared \in BOOLEAN :
        /\ replay' = [run |-> 2, shared |-> shared, first |-> Snapshots(heap, history)]
        /\ mutations_config' = IF shared THEN mutations_config ELSE 2
    /\ rng' = [rng EXCEPT !.pos = 0]
    /\ pc' = "call"
    /\ UNCHANGED <<profiles, heap, configs, starting_genome, mutation_cnt, current_genome,
                   history, k, mutation_type, mutation, sample, error>>

NextReplay == Next \/ CallAgain

SpecReplay == InitReplay /\ [][NextReplay]_vars

\* ------------------------------------------------- clonal and subclonal runs
\* ClonalSubClonalSimulationManager.generate_mutated_genomes: the clonal run
\* from initial_genome, then the subclonal run from the majority clone (the last
\* genome of the clonal history); both calls leave mutations_config to its
\* default, the module's MUTATION_CONFIG object. replay keeps the manager's
\* subclonal_mutation_cnt, the run at hand and the clonal history.
\* Largest pair of runs followed: the segments of initial_genome plus twice the
\* two mutation counts.
MaxClonalScope == 10

ClonalCalls ==
    {c \in StartingGenomes \X (0..MaxMutationCnt) \X (0..MaxMutationCnt) :
        Len(c[1]) * Len(c[1][1]) + 2 * (c[2] + c[3]) <= MaxClonalScope}

InitClonal ==
    /\ \E call \in ClonalCalls :
        /\ heap = <<call[1]>>
        /\ mutation_cnt = call[2]
        /\ replay = [run |-> 1, shared |-> TRUE, first |-> <<>>,
                     subclonal_mutation_cnt |-> call[3]]
    /\ configs = <<MUTATION_CONFIG>>
    /\ rng = [seeded |-> FALSE, seed |-> 0, pos |-> 0]
    /\ pc = "call"
    /\ starting_genome = 1
    /\ mutations_config = 1
    /\ current_genome = 0
    /\ history = [genomes |-> <<>>, mutations |-> <<>>]
    /\ k = 0
    /\ mutation_type = "NONE"
    /\ mutation = NoMutation
    /\ sample = <<>>
    /\ error = "none"
    /\ NoProfiles

\* self.majority_clone = self.majority_clone_history["genomes"][-1], and the
\* call of generate_mutated_genome on it.
CallSubclonal ==
    /\ pc = "done"
    /\ replay.run = 1
    /\ replay' = [replay EXCEPT !.run = 2, !.first = Snapshots(heap, history)]
    /\ starting_genome' = history.genomes[Len(history.genomes)]
    /\ mutation_cnt' = replay.subclonal_mutation_cnt
    /\ pc' = "call"
    /\ UNCHANGED <<profiles, heap, configs, rng, mutations_config, current_genome,
                   history, k, mutation_type, mutation, sample, error>>

NextClonal == Next \/ CallSubclonal

SpecClonal == InitClonal /\ [][NextClonal]_vars

\* --------------------------------------------------------------- dispatch
\* A caller of generate_mutation and then apply_mutation on a genome, with any
\* mutation type, one the dispatch tables do not hold included.
AnyTypes == GeneratingTypes \cup {UNSUPPORTED}

InitDispatch ==
    /\ \E call \in Calls : heap = <<call[1]>> /\ call[2] = 0
    /\ \E c \in Configs : configs = CreateME(<<c>>, 1)
    /\ rng = [seeded |-> FALSE, seed |-> 0, pos |-> 0]
    /\ mutation_cnt = 0
    /\ pc = "idle"
    /\ Locals
    /\ NoProfiles

\* mutation = generate_mutation(mutation_type, genome, config), for a call that
\* comes back (it returns or raises).
CallGenerateMutation ==
    /\ pc = "idle"
    /\ \E t \in AnyTypes :
        /\ mutation_type' = t
        /\ \E o \in generate_mutation(t, heap[starting_genome],
                                      configs[mutations_config], rng) :
            /\ o.kind # "retry"
            /\ mutation' = IF o.kind = "return" THEN o.mutation ELSE mutation
            /\ error' = IF o.kind = "raise" THEN o.error ELSE error
            /\ pc' = IF o.kind = "return" THEN "generated" ELSE "raised"
    /\ UNCHANGED <<profiles, args, heap, configs, rng, current_genome, history, k, sample,
                   replay>>

\* apply_mutation(genome, m), m the generated mutation or one of a type the
\* table does not hold.
CallApplyMutation ==
    /\ pc = "generated"
    /\ \E m \in {mutation, [mutation EXCEPT !.mutation_type = UNSUPPORTED]} :
        LET r == apply_mutation(heap, starting_genome, m)
        IN /\ mutation' = m
           /\ heap' = r.heap
           /\ error' = r.error
           /\ current_genome' = r.result
           /\ pc' = IF r.error = "none" THEN "applied" ELSE "raised"
    /\ UNCHANGED <<profiles, args, configs, rng, history, k, mutation_type, sample, replay>>

NextDispatch == CallGenerateMutation \/ CallApplyMutation

SpecDispatch == InitDispatch /\ [][NextDispatch]_vars

\* ------------------------------------------- adjacency copy-number profiles
\* A profile maps an adjacency identity to a map from Phasing to a value: the
\* list of the occurrences (as get_adjacencies_from_genome builds it) or their
\* count (as an inferred profile holds it).
Phasing == <<"AA", "AB", "BA", "BB">>
\* The adjacency identities of the profiles followed.
Ids == {"a1", "a2"}
\* Largest count, or list length, of one entry of a profile.
MaxCount == 2
\* Most (identity, Phasing) entries of the profiles of a caller together.
MaxEntries == 2

\* A list of n occurrences, and a count.
ListValue(n) == [is_list |-> TRUE, value |-> [j \in 1..n |-> "adjacency"]]
IntValue(n) == [is_list |-> FALSE, value |-> n]
\* What a profile built by get_adjacencies_from_genome holds (lists that were
\* appended to), what an inferred profile holds (counts), and any value.
ListValues == {ListValue(n) : n \in 1..MaxCount}
IntValues == {IntValue(n) : n \in 0..MaxCount}
AnyValues == {ListValue(n) : n \in 0..MaxCount} \cup IntValues

\* The profile that holds the identities present, with the entries slots (pairs
\* of an identity and a Phasing), valued by f.
ProfileOf(present, slots, f) ==
    [id \in present |->
        [ph \in {q \in Range(Phasing) : <<id, q>> \in slots} |-> f[<<id, ph>>]]]

\* The entries a profile over the identities present may have.
Slots(present) == SUBSET (present \X Range(Phasing))

\* The default a caller of get_unphased_adjacency_cn gives: 0 when it gives
\* none.
Defaults == {0, -1}

\* for phasing in Phasing: ... total_cnt += value
RECURSIVE phasing_loop(_, _, _)
phasing_loop(entry, i, total_cnt) ==
    IF i > Len(Phasing) THEN total_cnt
    ELSE LET phasing == Phasing[i]
         IN IF phasing \notin DOMAIN entry THEN phasing_loop(entry, i + 1, total_cnt)
            ELSE LET value == IF entry[phasing].is_list THEN Len(entry[phasing].value)
                              ELSE entry[phasing].value
                 IN phasing_loop(entry, i + 1, total_cnt + value)

\* Faulty variant: an absent identity counts 0, whatever default is given.
get_unphased_adjacency_cn_zero(adjacency_id, acnp, default) ==
    IF adjacency_id \notin DOMAIN acnp THEN 0
    ELSE phasing_loop(acnp[adjacency_id], 1, 0)

get_unphased_adjacency_cn(adjacency_id, acnp, default) ==
    IF adjacency_id \notin DOMAIN acnp THEN default
    ELSE phasing_loop(acnp[adjacency_id], 1, 0)

\* set(ref_acnp.keys()).union(inf_acnp.keys())
adjacency_ids(ref, inf) == DOMAIN ref \cup DOMAIN inf

get_correctly_inferred_present_unphased_adjacencies(ref, inf) ==
    {a_id \in adjacency_ids(ref, inf) :
        /\ get_unphased_adjacency_cn(a_id, ref, 0) > 0
        /\ get_unphased_adjacency_cn(a_id, inf, 0) > 0}

get_correctly_inferred_absent_unphased_adjacencies(ref, inf) ==
    {a_id \in adjacency_ids(ref, inf) :
        /\ get_unphased_adjacency_cn(a_id, ref, 0) = 0
        /\ get_unphased_adjacency_cn(a_id, inf, 0) = 0}

\* int(total) of a total that is a sum of counts and list lengths.
int(total_cnt) == total_cnt

\* Faulty variant: agreement on presence is taken for agreement on the count.
get_correctly_inferred_unphased_adjacencies_presence(ref, inf) ==
    {a_id \in adjacency_ids(ref, inf) :
        (get_unphased_adjacency_cn(a_id, ref, 0) > 0)
            = (get_unphased_adjacency_cn(a_id, inf, 0) > 0)}

get_correctly_inferred_unphased_adjacencies(ref, inf) ==
    {a_id \in adjacency_ids(ref, inf) :
        int(get_unphased_adjacency_cn(a_id, ref, 0))
            = int(get_unphased_adjacency_cn(a_id, inf, 0))}

main_vars == <<heap, configs, rng, starting_genome, mutation_cnt, mutations_config,
               current_genome, history, k, mutation_type, mutation, sample, pc, error,
               replay>>

\* A caller that holds no genome.
NoGenome ==
    /\ heap = <<>>
    /\ configs = <<>>
    /\ rng = [seeded |-> FALSE, seed |-> 0, pos |-> 0]
    /\ mutation_cnt = 0
    /\ pc = "profiles"
    /\ Locals

\* A caller that holds a profile and calls get_unphased_adjacency_cn on it.
InitCn ==
    /\ NoGenome
    /\ \E present \in SUBSET Ids : \E slots \in Slots(present) :
        /\ Cardinality(slots) <= MaxEntries
        /\ \E f \in [slots -> AnyValues] : ref_acnp = ProfileOf(present, slots, f)
    /\ inf_acnp = <<>>
    /\ result = NoResult

CallUnphasedCn ==
    /\ pc = "profiles"
    /\ \E adjacency_id \in Ids, default \in Defaults :
        result' = [call |-> "get_unphased_adjacency_cn",
                   adjacency_id |-> adjacency_id, default |-> default,
                   value |-> get_unphased_adjacency_cn(adjacency_id, ref_acnp, default)]
    /\ UNCHANGED <<main_vars, ref_acnp, inf_acnp>>

SpecCn == InitCn /\ [][CallUnphasedCn]_vars

\* A caller that holds a reference and an inferred profile and calls the
\* comparators on them, in any order.
InitProfiles ==
    /\ NoGenome
    /\ \E ref_present \in SUBSET Ids, inf_present \in SUBSET Ids :
        \E ref_slots \in Slots(ref_present), inf_slots \in Slots(inf_present) :
            /\ Cardinality(ref_slots) + Cardinality(inf_slots) <= MaxEntries
            /\ \E f \in [ref_slots -> ListValues] :
                    ref_acnp = ProfileOf(ref_present, ref_slots, f)
            /\ \E f \in [inf_slots -> IntValues] :
                    inf_acnp = ProfileOf(inf_present, inf_slots, f)
    /\ result = NoResult

CallPresent ==
    /\ pc = "profiles"
    /\ result' = [call |-> "present",
                  value |-> get_correctly_inferred_present_unphased_adjacencies(
                                ref_acnp, inf_acnp)]
    /\ UNCHANGED <<main_vars, ref_acnp, inf_acnp>>

CallAbsent ==
    /\ pc = "profiles"
    /\ result' = [call |-> "absent",
                  value |-> get_correctly_inferred_absent_unphased_adjacencies(
                                ref_acnp, inf_acnp)]
    /\ UNCHANGED <<main_vars, ref_acnp, inf_acnp>>

CallCorrect ==
    /\ pc = "profiles"
    /\ result' = [call |-> "correct",
                  value |-> get_correctly_inferred_unphased_adjacencies(
                                ref_acnp, inf_acnp)]
    /\ UNCHANGED <<main_vars, ref_acnp, inf_acnp>>

NextProfiles == CallPresent \/ CallAbsent \/ CallCorrect

SpecProfiles == InitProfiles /\ [][NextProfiles]_vars

\* A caller that calls get_correctly_inferred_present_absent_unphased_adjacencies
\* on its profiles. result holds the call stack: a frame stands at line 413 (the
\* call of the function itself, whose return it waits for once made) or at
\* line 414 (the union with the present set) with the value the inner call
\* returned.
\* Frames the interpreter allows (sys.getrecursionlimit()).
RecursionLimit == 4

Frame(line, value) == [line |-> line, value |-> value]

\* Faulty variant: line 413 calls the absent comparator.
present_absent_step_absent(r, ref, inf) ==
    LET top == r.stack[Len(r.stack)]
        rest == DropLast(r.stack)
    IN IF top.line = 413
       THEN [r EXCEPT !.stack = Append(rest,
                Frame(414, get_correctly_inferred_absent_unphased_adjacencies(ref, inf)))]
       ELSE LET value == top.value \cup
                    get_correctly_inferred_present_unphased_adjacencies(ref, inf)
            IN IF rest = <<>>
               THEN [r EXCEPT !.stack = <<>>, !.returned = TRUE, !.value = value]
               ELSE [r EXCEPT !.stack = Append(DropLast(rest), Frame(414, value))]

\* One step of the frame on top of the stack: at line 413 it calls the function
\* with the same arguments (a new frame at line 413); at line 414 it returns the
\* union to the frame below, or to the caller.
present_absent_step(r, ref, inf) ==
    LET top == r.stack[Len(r.stack)]
        rest == DropLast(r.stack)
    IN IF top.line = 413
       THEN [r EXCEPT !.stack = Append(@, Frame(413, {}))]
       ELSE LET value == top.value \cup
                    get_correctly_inferred_present_unphased_adjacencies(ref, inf)
            IN IF rest = <<>>
               THEN [r EXCEPT !.stack = <<>>, !.returned = TRUE, !.value = value]
               ELSE [r EXCEPT !.stack = Append(DropLast(rest), Frame(414, value))]

CallPresentAbsent ==
    /\ pc = "profiles"
    /\ result = NoResult
    /\ result' = [call |-> "present_absent", stack |-> <<Frame(413, {})>>,
                  returned |-> FALSE, value |-> {}, error |-> "none"]
    /\ UNCHANGED <<main_vars, ref_acnp, inf_acnp>>

StepPresentAbsent ==
    /\ pc = "profiles"
    /\ result.call = "present_absent"
    /\ result.stack # <<>>
    /\ Len(result.stack) < RecursionLimit
    /\ result' = present_absent_step(result, ref_acnp, inf_acnp)
    /\ UNCHANGED <<main_vars, ref_acnp, inf_acnp>>

\* The call that would exceed the limit raises RecursionError, which no frame
\* catches.
RaiseRecursionError ==
    /\ pc = "profiles"
    /\ result.call = "present_absent"
    /\ Len(result.stack) = RecursionLimit
    /\ result.stack[Len(result.stack)].line = 413
    /\ result' = [result EXCEPT !.stack = <<>>, !.error = "RecursionError"]
    /\ UNCHANGED <<main_vars, ref_acnp, inf_acnp>>

NextRecursion == CallPresentAbsent \/ StepPresentAbsent \/ RaiseRecursionError

SpecRecursion == InitProfiles /\ [][NextRecursion]_vars

\* ------------------------------------------------------ evidence extraction
\* AdjacencyType
NOVEL == "NOVEL"
REFERENCE == "REFERENCE"

\* The order of Positions: by chromosome, then coordinate, then extremity.
PositionLess(p, q) ==
    \/ p[1] < q[1]
    \/ p[1] = q[1] /\ p[2] < q[2]
    \/ p[1] = q[1] /\ p[2] = q[2] /\ p[3] < q[3]

\* Adjacency(position1, position2, adjacency_type): an unordered pair of
\* Positions, kept in order; idx is its identity.
Adjacency(position1, position2, adjacency_type) ==
    LET p1 == IF PositionLess(position2, position1) THEN position2 ELSE position1
        p2 == IF PositionLess(position2, position1) THEN position1 ELSE position2
    IN [position1 |-> p1, position2 |-> p2, adjacency_type |-> adjacency_type,
        idx |-> <<p1, p2>>]

\* The lookup table from a pair of haplotypes to a Phasing.
HAPLOTYPE_PAIRS_TO_PHASING(pair) ==
    CASE pair = <<"A", "A">> -> "AA"
      [] pair = <<"A", "B">> -> "AB"
      [] pair = <<"B", "A">> -> "BA"
      [] pair = <<"B", "B">> -> "BB"

\* zip(chromosome[:-1], chromosome[1:])
zip_consecutive(chromosome) ==
    [i \in 1..(IF Len(chromosome) = 0 THEN 0 ELSE Len(chromosome) - 1) |->
        <<chromosome[i], chromosome[i + 1]>>]

\* The pairs the two nested for loops visit, in their order.
RECURSIVE consecutive_pairs(_, _)
consecutive_pairs(genome, c) ==
    IF c > Len(genome) THEN <<>>
    ELSE zip_consecutive(genome[c]) \o consecutive_pairs(genome, c + 1)

\* result[key][bucket].append(item), the key and the bucket created when absent.
bucket_append(result_, key, bucket, item) ==
    IF key \notin DOMAIN result_ THEN (key :> (bucket :> <<item>>)) @@ result_
    ELSE IF bucket \notin DOMAIN result_[key]
         THEN [result_ EXCEPT ![key] = (bucket :> <<item>>) @@ @]
         ELSE [result_ EXCEPT ![key][bucket] = Append(@, item)]

\* Faulty variant: an adjacency is REFERENCE only when is_reference is set.
classified_reference_flag(idx, is_reference, ref_adjacencies) == is_reference

\* if adjacency.idx in ref_adjacencies or is_reference
classified_reference(idx, is_reference, ref_adjacencies) ==
    idx \in ref_adjacencies \/ is_reference

\* Faulty variant: an occurrence replaces the bucket of its identity and phasing.
adjacency_store_last(result_, adjacency, phasing) ==
    IF adjacency.idx \notin DOMAIN result_
    THEN (adjacency.idx :> (phasing :> <<adjacency>>)) @@ result_
    ELSE [result_ EXCEPT ![adjacency.idx] = (phasing :> <<adjacency>>) @@ @]

\* if adjacency.idx not in result: result[adjacency.idx] = defaultdict(list);
\* result[adjacency.idx][phasing].append(adjacency)
adjacency_store(result_, adjacency, phasing) ==
    bucket_append(result_, adjacency.idx, phasing, adjacency)

\* The body of the inner for loop, for the i-th pair.
RECURSIVE adjacency_loop(_, _, _, _, _)
adjacency_loop(pairs, i, is_reference, result_, ref_adjacencies) ==
    IF i > Len(pairs) THEN [result |-> result_, ref_adjacencies |-> ref_adjacencies]
    ELSE LET s1 == pairs[i][1]
             s2 == pairs[i][2]
             novel == Adjacency(end_position(s1), start_position(s2), NOVEL)
             is_ref == classified_reference(novel.idx, is_reference, ref_adjacencies)
             adjacency == IF is_ref THEN [novel EXCEPT !.adjacency_type = REFERENCE]
                          ELSE novel
             phasing == HAPLOTYPE_PAIRS_TO_PHASING(
                            IF end_position(s1) = adjacency.position2
                            THEN <<s1.haplotype, s2.haplotype>>
                            ELSE <<s2.haplotype, s1.haplotype>>)
         IN adjacency_loop(pairs, i + 1, is_reference,
                           adjacency_store(result_, adjacency, phasing),
                           IF is_ref THEN ref_adjacencies \cup {novel.idx}
                           ELSE ref_adjacencies)

\* ref_adjacencies is [given, set]: the set object the caller passes, or None
\* (given = FALSE), for which the function makes a set of its own.
get_adjacencies_from_genome(genome, is_reference, ref_adjacencies) ==
    adjacency_loop(consecutive_pairs(genome, 1), 1, is_reference, <<>>,
                   IF ref_adjacencies.given THEN ref_adjacencies.set ELSE {})

\* Segment.idx: the identity of a segment in its present orientation.
segment_idx(segment) == <<start_position(segment), end_position(segment)>>

\* Faulty variant: the segment is left reversed once more after its identity
\* was read.
scn_visit_no_undo(segment) ==
    IF segment.is_reversed
    THEN LET flipped == reverse_segment(segment)
         IN [segment_idx |-> segment_idx(flipped), segment |-> flipped]
    ELSE [segment_idx |-> segment_idx(segment), segment |-> segment]

\* The if / else of the loop body: reverse_segment changes the segment in place,
\* so a reversed segment is reversed, read, and reversed again.
scn_visit(segment) ==
    IF segment.is_reversed
    THEN LET flipped == reverse_segment(segment)
         IN [segment_idx |-> segment_idx(flipped), segment |-> reverse_segment(flipped)]
    ELSE [segment_idx |-> segment_idx(segment), segment |-> segment]

\* The two nested for loops over the segments, c and i counting from 1.
RECURSIVE scn_loop(_, _, _, _)
scn_loop(genome, c, i, result_) ==
    IF c > Len(genome) THEN [result |-> result_, genome |-> genome]
    ELSE IF i > Len(genome[c]) THEN scn_loop(genome, c + 1, 1, result_)
    ELSE LET haplotype == genome[c][i].haplotype
             v == scn_visit(genome[c][i])
         IN scn_loop([genome EXCEPT ![c][i] = v.segment], c, i + 1,
                     bucket_append(result_, v.segment_idx, haplotype, v.segment))

\* The profile and the genome as the call leaves it.
get_scn_profile_from_genome(genome) == scn_loop(genome, 1, 1, <<>>)

\* A caller that holds the history of a run and a set ref_adjacencies (empty at
\* first), and calls the two extraction functions on the first and on the last
\* snapshot. result keeps the calls made, the caller's set, and the last call.
\* Largest run and extraction calls followed: the measure of MaxScope plus
\* twice the calls made on the history.
MaxExtractScope == 10

ExtractCalls ==
    {c \in Calls : Len(c[1]) * Len(c[1][1]) + 2 * c[2] + 2 <= MaxExtractScope}

InitExtract ==
    /\ \E call \in ExtractCalls : heap = <<call[1]>> /\ mutation_cnt = call[2]
    /\ \E c \in Configs : configs = <<c>>
    /\ rng = [seeded |-> FALSE, seed |-> 0, pos |-> 0]
    /\ pc = "call"
    /\ Locals
    /\ NoProfiles

CallsMade == IF result.call = "none" THEN <<>> ELSE result.calls
\* One more call is within the scope followed.
WithinExtractScope ==
    Len(heap[1]) * Len(heap[1][1]) + 2 * mutation_cnt + 2 * (Len(CallsMade) + 1)
        <= MaxExtractScope
CallerSet == IF result.call = "none" THEN {} ELSE result.ref_adjacencies
Snapshot(g) == heap[history.genomes[g]]

CallGetAdjacencies ==
    /\ pc = "done"
    /\ WithinExtractScope
    /\ \E g \in {1, Len(history.genomes)}, is_reference \in BOOLEAN, given \in BOOLEAN :
        LET r == get_adjacencies_from_genome(Snapshot(g), is_reference,
                                             [given |-> given, set |-> CallerSet])
        IN result' = [call |-> "get_adjacencies_from_genome",
                      calls |-> Append(CallsMade,
                                  [function |-> "get_adjacencies_from_genome",
                                   genome |-> g, is_reference |-> is_reference,
                                   given |-> given]),
                      genome |-> g,
                      is_reference |-> is_reference,
                      given |-> given,
                      before |-> IF given THEN CallerSet ELSE {},
                      after |-> r.ref_adjacencies,
                      ref_adjacencies |-> IF given THEN r.ref_adjacencies ELSE CallerSet,
                      value |-> r.result]
    /\ UNCHANGED <<main_vars, ref_acnp, inf_acnp>>

CallGetScnProfile ==
    /\ pc = "done"
    /\ WithinExtractScope
    /\ \E g \in {1, Len(history.genomes)} :
        LET r == get_scn_profile_from_genome(Snapshot(g))
        IN /\ heap' = [heap EXCEPT ![history.genomes[g]] = r.genome]
           /\ result' = [call |-> "get_scn_profile_from_genome",
                         calls |-> Append(CallsMade,
                                     [function |-> "get_scn_profile_from_genome",
                                      genome |-> g, is_reference |-> FALSE,
                                      given |-> FALSE]),
                         genome |-> g,
                         before |-> Snapshot(g),
                         ref_adjacencies |-> CallerSet,
                         value |-> r.result]
    /\ UNCHANGED <<configs, rng, starting_genome, mutation_cnt, mutations_config,
                   current_genome, history, k, mutation_type, mutation, sample, pc,
                   error, replay, ref_acnp, inf_acnp>>

NextExtract == Next \/ CallGetAdjacencies \/ CallGetScnProfile

SpecExtract == InitExtract /\ [][NextExtract]_vars

\* ================================================================= claims
IntervalTypes == {REVERSAL, DUPLICATION, DELETION}
Positions(m) == NonNull(m.mutation_data.positions)
Config == configs[mutations_config]
\* The genome the mutation at hand was generated against and is applied to: the
\* last snapshot appended to the history.
InputGenome == heap[history.genomes[Len(history.genomes)]]
SegPositions(segments) ==
    UNION {{start_position(x), end_position(x)} : x \in Range(segments)}

\* C1: a reversal, duplication or deletion just returned by its generator
\* records no Position that is in mutated_extremities at that moment, and so none
\* that an earlier mutation of the run recorded.
C1_FreshBoundaries ==
    (pc = "apply" /\ mutation.mutation_type \in IntervalTypes) =>
        /\ Positions(mutation) \cap ME = {}
        /\ \A j \in 1..k : Positions(mutation) \cap Positions(history.mutations[j]) = {}

C1_Witness ==
    /\ pc = "apply"
    /\ mutation.mutation_type \in IntervalTypes
    /\ k = 1
    /\ ME # {}
    /\ history.mutations[1].mutation_data.chromosome_index
            = mutation.mutation_data.chromosome_index

\* C2: every non-null Position recorded by the mutation of a completed iteration
\* is in mutated_extremities, after that iteration and after every later one.
C2_RecordedInME ==
    \A j \in 1..Len(history.mutations) :
        j <= k => Positions(history.mutations[j]) \subseteq ME

C2_Witness ==
    /\ pc = "done"
    /\ k = 2
    /\ Positions(history.mutations[1]) # {}
    /\ Positions(history.mutations[2]) # {}

\* C3: no step of a run removes a Position from mutated_extremities.
C3_OnlyGrows == [][ME \subseteq ME']_vars

C3_Witness ==
    /\ pc = "loop"
    /\ k = 2
    /\ Positions(history.mutations[2]) \ Positions(history.mutations[1]) # {}
    /\ Positions(history.mutations[1]) \cup Positions(history.mutations[2]) \subseteq ME

\* C4: after k completed iterations the history holds k + 1 genomes and k
\* mutations, k never exceeds mutation_cnt and equals it on return, and the first
\* genome equals the starting genome.
C4_HistoryLengths ==
    /\ pc \in {"loop", "done"} =>
        /\ Len(history.genomes) = k + 1
        /\ Len(history.mutations) = k
        /\ k <= mutation_cnt
        /\ heap[history.genomes[1]] = heap[starting_genome]
    /\ pc = "done" => k = mutation_cnt

C4_Witness == pc = "done" /\ k = 2 /\ Len(history.genomes) = 3

\* C5: breakage_indexes lists, ascending and without repeats, exactly the legal
\* indices: 0 when the first start Position is unused, len when the last end
\* Position is unused, an inner i when both Positions of junction i are unused;
\* nothing for an empty chromosome and 0..len for an empty set. Checked for
\* every chromosome of the current genome against the current set and the sets
\* that differ from it, or from the empty set, by one Position.
Legal(chromosome, me, i) ==
    IF i = 0 THEN start_position(At(chromosome, 0)) \notin me
    ELSE IF i = Len(chromosome)
         THEN end_position(At(chromosome, Len(chromosome) - 1)) \notin me
         ELSE /\ end_position(At(chromosome, i - 1)) \notin me
              /\ start_position(At(chromosome, i)) \notin me

BreakageCorrect(chromosome, me) ==
    LET r == breakage_indexes(chromosome, [mutated_extremities |-> me])
    IN IF Len(chromosome) = 0 THEN r = <<>>
       ELSE /\ \A a \in DOMAIN r : \A b \in DOMAIN r : a < b => r[a] < r[b]
            /\ Range(r) = {i \in 0..Len(chromosome) : Legal(chromosome, me, i)}
            /\ me = {} => r = [j \in 1..(Len(chromosome) + 1) |-> j - 1]

NearbySets(chromosome) ==
    {ME, {}} \cup {ME \ {p} : p \in ME}
        \cup {ME \cup {p} : p \in SegPositions(chromosome)}
        \cup {{p} : p \in SegPositions(chromosome)}

C5_BreakageIndexes ==
    pc = "generate" =>
        \A chromosome \in Range(CurrentGenome) :
            \A me \in NearbySets(chromosome) : BreakageCorrect(chromosome, me)

C5_Witness ==
    /\ pc = "generate"
    /\ \E chromosome \in Range(CurrentGenome) :
        LET r == breakage_indexes(chromosome, Config)
        IN /\ Len(r) >= 2
           /\ Len(r) < Len(chromosome) + 1
           /\ \E i \in 1..(Len(chromosome) - 1) : i \notin Range(r)
           /\ \E i \in 1..(Len(chromosome) - 1) : i \in Range(r)

\* C6: applying a mutation changes no genome that existed before the call, the
\* one passed in included; only the new genome differs.
C6_InputUnchanged ==
    [][pc = "apply" => \A ref \in DOMAIN heap : heap'[ref] = heap[ref]]_vars

C6_Witness ==
    /\ pc = "record"
    /\ mutation.mutation_type = REVERSAL
    /\ current_genome # history.genomes[Len(history.genomes)]
    /\ CurrentGenome # InputGenome

\* C7: with homozygous unset, no translocation is returned for two chromosomes
\* whose most common chromosome-of-origin label is the same.
Labels(chromosome) == [i \in DOMAIN chromosome |-> chromosome[i].chromosome]
SameOrigin(chromosome1, chromosome2) ==
    most_common(Labels(chromosome1))[1] = most_common(Labels(chromosome2))[1]

C7_MatesRejected ==
    (pc = "apply" /\ mutation.mutation_type = TRANSLOCATION /\ ~Config.homozygous) =>
        ~SameOrigin(At(CurrentGenome, mutation.mutation_data.chr1_index),
                    At(CurrentGenome, mutation.mutation_data.chr2_index))

\* C8: a type that the dispatch tables do not hold ends generate_mutation and
\* apply_mutation in ValueError, with no mutation and no genome returned and the
\* genome and mutated_extremities as they were; a type they hold yields a
\* mutation of that type and the genome of that type's applier.
SameTypeApplier(h, genome, m) ==
    CASE m.mutation_type = REVERSAL -> apply_reversal(h, genome, m)
      [] m.mutation_type = DUPLICATION -> apply_duplication(h, genome, m)
      [] m.mutation_type = DELETION -> apply_deletion(h, genome, m)
      [] m.mutation_type = TRANSLOCATION -> apply_translocation(h, genome, m)

C8_Dispatch ==
    /\ (pc = "raised" /\ (mutation_type = UNSUPPORTED
                            \/ mutation.mutation_type = UNSUPPORTED)) =>
        /\ error = "ValueError"
        /\ mutation_type = UNSUPPORTED => mutation = NoMutation
        /\ current_genome = 0
        /\ Len(heap) = 1
        /\ heap[starting_genome] \in StartingGenomes
        /\ ME = {}
    /\ pc \in {"generated", "applied"} =>
        /\ mutation_type \in GeneratingTypes
        /\ mutation.mutation_type = mutation_type
    /\ pc = "applied" =>
        /\ error = "none"
        /\ LET r == SameTypeApplier(<<heap[starting_genome]>>, 1, mutation)
           IN heap[current_genome] = r.heap[r.result]

C8_Witness ==
    /\ pc = "raised"
    /\ mutation.mutation_type = UNSUPPORTED
    /\ mutation_type = TRANSLOCATION

\* C9 as claimed: a second call with the same starting genome, mutation_cnt and
\* seed returns the History of the first, whichever configuration it is passed.
C9_ReplayEqual ==
    (replay.run = 2 /\ pc = "done") => Snapshots(heap, history) = replay.first

\* C9 amended: the second call returns, and returns the History of the first,
\* when it is passed a configuration with the content the first call's
\* configuration had when that call started.
C9_ReplayEqualCopy ==
    (replay.run = 2 /\ ~replay.shared) =>
        /\ pc # "error"
        /\ pc = "done" => Snapshots(heap, history) = replay.first

C9_Witness ==
    /\ replay.run = 2
    /\ ~replay.shared
    /\ pc = "done"
    /\ k = 2
    /\ history.mutations[1].mutation_type # history.mutations[2].mutation_type

\* C10 as claimed: after any deletion no remaining segment of the chromosome has a
\* start or end Position that a removed segment has.
RemovedSegments ==
    Slice(At(InputGenome, mutation.mutation_data.chromosome_index),
          mutation.mutation_data.deletion_start_index,
          mutation.mutation_data.deletion_end_index)
ResidualSegments == At(CurrentGenome, mutation.mutation_data.chromosome_index)
DistinctSegments(chromosome) ==
    \A i \in DOMAIN chromosome : \A j \in DOMAIN chromosome :
        i # j => <<chromosome[i].chromosome, chromosome[i].idx>>
                    # <<chromosome[j].chromosome, chromosome[j].idx>>

C10_NoResidualPosition ==
    (pc = "record" /\ mutation.mutation_type = DELETION) =>
        SegPositions(ResidualSegments) \cap SegPositions(RemovedSegments) = {}

\* C10 amended: the same, for a deletion on a chromosome in which no two
\* segments are copies of the same reference segment.
C10_NoResidualPositionDistinct ==
    (/\ pc = "record"
     /\ mutation.mutation_type = DELETION
     /\ DistinctSegments(At(InputGenome, mutation.mutation_data.chromosome_index))) =>
        SegPositions(ResidualSegments) \cap SegPositions(RemovedSegments) = {}

C10_Witness ==
    /\ pc = "record"
    /\ mutation.mutation_type = DELETION
    /\ k = 1
    /\ history.mutations[1].mutation_type = DUPLICATION
    /\ DistinctSegments(At(InputGenome, mutation.mutation_data.chromosome_index))
    /\ Len(ResidualSegments) >= 1

\* C11: after a generated deletion of [s, e) the affected chromosome has e - s
\* segments fewer than in the input genome and every other chromosome has as
\* many as before.
C11_DeletionCount ==
    (pc = "record" /\ mutation.mutation_type = DELETION) =>
        /\ Len(CurrentGenome) = Len(InputGenome)
        /\ \A i \in DOMAIN InputGenome :
            Len(CurrentGenome[i]) =
                IF i - 1 = mutation.mutation_data.chromosome_index
                THEN Len(InputGenome[i]) - (mutation.mutation_data.deletion_end_index
                                            - mutation.mutation_data.deletion_start_index)
                ELSE Len(InputGenome[i])

C11_Witness ==
    /\ pc = "record"
    /\ mutation.mutation_type = DELETION
    /\ mutation.mutation_data.chromosome_index = 1
    /\ mutation.mutation_data.deletion_end_index
            - mutation.mutation_data.deletion_start_index = 2
    /\ Len(At(CurrentGenome, 1)) = 1

\* C12: applying a reversal of [s, e), s < e, to a genome and then the same
\* mutation to the result gives back the genome: the affected chromosome has its
\* segments in the original order and orientation (and the others are as they
\* were). Checked on every genome a run reaches, for every chromosome and
\* every s < e.
AppliedTwice(m) ==
    LET r1 == apply_reversal(heap, current_genome, m)
        r2 == apply_reversal(r1.heap, r1.result, m)
    IN r2.heap[r2.result]

C12_ReversalRoundTrip ==
    pc \in {"generate", "record"} =>
        \A chr_index \in 0..(Len(CurrentGenome) - 1) :
            \A s \in 0..Len(At(CurrentGenome, chr_index)) :
                \A e \in (s + 1)..Len(At(CurrentGenome, chr_index)) :
                    AppliedTwice(ReversalMutation(chr_index, s, e, <<>>)) = CurrentGenome

\* The second application of a generated reversal, after the first changed
\* the chromosome, to a genome an earlier mutation already rearranged.
C12_Witness ==
    /\ pc = "record"
    /\ k = 1
    /\ mutation.mutation_type = REVERSAL
    /\ CurrentGenome # InputGenome
    /\ apply_reversal(heap, current_genome, mutation).heap[Len(heap) + 1] = InputGenome
    /\ mutation.mutation_data.reversal_end_index
            - mutation.mutation_data.reversal_start_index >= 2

\* C13: after a generated translocation, with either value of cc, the two
\* participating chromosomes hold together as many segments as in the input
\* genome, and the genome has as many chromosomes as before.
PairLength(genome) ==
    Len(At(genome, mutation.mutation_data.chr1_index))
        + Len(At(genome, mutation.mutation_data.chr2_index))

C13_TranslocationConserves ==
    (pc = "record" /\ mutation.mutation_type = TRANSLOCATION) =>
        /\ PairLength(CurrentGenome) = PairLength(InputGenome)
        /\ Len(CurrentGenome) = Len(InputGenome)

C13_Witness ==
    /\ pc = "record"
    /\ mutation.mutation_type = TRANSLOCATION
    /\ ~mutation.mutation_data.cc
    /\ Len(At(CurrentGenome, mutation.mutation_data.chr1_index))
            # Len(At(InputGenome, mutation.mutation_data.chr1_index))

\* The unphased total of an identity in a profile: the counts and list lengths of
\* its entries added up, 0 for an identity the profile does not hold.
RECURSIVE EntrySum(_, _)
EntrySum(entry, phasings) ==
    IF phasings = {} THEN 0
    ELSE LET ph == CHOOSE q \in phasings : TRUE
         IN (IF entry[ph].is_list THEN Len(entry[ph].value) ELSE entry[ph].value)
                + EntrySum(entry, phasings \ {ph})

Total(acnp, id) == IF id \in DOMAIN acnp THEN EntrySum(acnp[id], DOMAIN acnp[id]) ELSE 0
\* C14: get_unphased_adjacency_cn returns the default given when the identity is
\* no key of the profile (so for every identity on an empty profile), and
\* otherwise the sum over the Phasing values present of the count, or of the
\* list length.
C14_UnphasedCn ==
    result.call = "get_unphased_adjacency_cn" =>
        /\ result.adjacency_id \notin DOMAIN ref_acnp => result.value = result.default
        /\ result.adjacency_id \in DOMAIN ref_acnp =>
                result.value = EntrySum(ref_acnp[result.adjacency_id],
                                        DOMAIN ref_acnp[result.adjacency_id])
        /\ DOMAIN ref_acnp = {} => result.value = result.default

\* A list and a count of the same identity are added up, the default not 0.
C14_Witness ==
    /\ result.call = "get_unphased_adjacency_cn"
    /\ result.default = -1
    /\ result.adjacency_id \in DOMAIN ref_acnp
    /\ LET entry == ref_acnp[result.adjacency_id]
       IN /\ \E ph \in DOMAIN entry : entry[ph].is_list /\ Len(entry[ph].value) = 2
          /\ \E ph \in DOMAIN entry : ~entry[ph].is_list /\ entry[ph].value = 1
    /\ result.value = 3

\* C15: over the union of the identities of the two profiles, the present
\* comparator returns the identities whose total is > 0 in both, the absent one
\* those whose total is 0 in both, the overall one those whose totals are equal;
\* an identity with total 0 in the reference and > 0 in the inferred profile is
\* in none of the three.
Union == DOMAIN ref_acnp \cup DOMAIN inf_acnp

C15_Comparators ==
    /\ result.call = "present" =>
            result.value = {id \in Union : Total(ref_acnp, id) > 0 /\ Total(inf_acnp, id) > 0}
    /\ result.call = "absent" =>
            result.value = {id \in Union : Total(ref_acnp, id) = 0 /\ Total(inf_acnp, id) = 0}
    /\ result.call = "correct" =>
            result.value = {id \in Union : Total(ref_acnp, id) = Total(inf_acnp, id)}
    /\ result.call \in {"present", "absent", "correct"} =>
            \A id \in Ids :
                (Total(ref_acnp, id) = 0 /\ Total(inf_acnp, id) > 0) => id \notin result.value

\* The overall comparator on an identity present in both profiles with unequal
\* totals, next to one the reference lacks and the inferred profile holds.
C15_Witness ==
    /\ result.call = "correct"
    /\ \E id \in Union :
        /\ Total(ref_acnp, id) > 0
        /\ Total(inf_acnp, id) > 0
        /\ Total(ref_acnp, id) # Total(inf_acnp, id)
        /\ id \notin result.value

\* C16: each split index a generated translocation records is one of that
\* chromosome's candidate breakage indices (breakage_indexes after the empty-arm
\* filter of its side), and so none of its non-null Positions is in
\* mutated_extremities when it is generated.
Candidates(chromosome, arm_flag) ==
    Range(arm_filter(breakage_indexes(chromosome, Config), Len(chromosome), arm_flag).br)

C16_SplitIndexIsCandidate ==
    (pc = "apply" /\ mutation.mutation_type = TRANSLOCATION) =>
        /\ mutation.mutation_data.chr1_transl_index
                \in Candidates(At(CurrentGenome, mutation.mutation_data.chr1_index),
                               Config.chr1_empty_arm)
        /\ mutation.mutation_data.chr2_transl_index
                \in Candidates(At(CurrentGenome, mutation.mutation_data.chr2_index),
                               Config.chr2_empty_arm)
        /\ Positions(mutation) \cap ME = {}

\* C17: a generator that samples an infeasible chromosome samples again; the
\* call of generate_reversal, generate_duplication or generate_deletion never
\* ends in an error.
C17_NoGeneratorError ==
    mutation_type \in IntervalTypes => pc # "error"

\* C18: for every pair of distinct chromosomes that the feasibility loop of
\* generate_translocation accepts (each side has at least 1 candidate index),
\* the generator returns a TRANSLOCATION mutation for the pair.
Accepted(i1, i2) ==
    LET chromosome_1 == At(CurrentGenome, i1)
        chromosome_2 == At(CurrentGenome, i2)
        f1 == arm_filter(breakage_indexes(chromosome_1, Config), Len(chromosome_1),
                         Config.chr1_empty_arm)
        f2 == arm_filter(breakage_indexes(chromosome_2, Config), Len(chromosome_2),
                         Config.chr2_empty_arm)
    IN /\ i1 # i2
       /\ ~f1.raised /\ ~f2.raised
       /\ Len(f1.br) >= 1 /\ Len(f2.br) >= 1

C18_AcceptedPairReturns ==
    (pc = "generate" /\ mutation_type = TRANSLOCATION) =>
        \A i1 \in 0..(Len(CurrentGenome) - 1) : \A i2 \in 0..(Len(CurrentGenome) - 1) :
            Accepted(i1, i2) =>
                \A o \in translocation_pass(CurrentGenome, Config, rng, i1, i2) :
                    o.kind = "return" /\ o.mutation.mutation_type = TRANSLOCATION

\* The candidate list of a chromosome as the generator of the type filters it:
\* generate_duplication applies no arm filter.
ArmFlag(type) ==
    CASE type = REVERSAL -> Config.arm_reversal
      [] type = DELETION -> Config.arm_deletion
      [] type = DUPLICATION -> TRUE
\* The chromosomes with at least 2 candidate breakage indices after the filter.
Qualifying(type) ==
    {i \in 0..(Len(CurrentGenome) - 1) :
        Cardinality(Candidates(At(CurrentGenome, i), ArmFlag(type))) >= 2}

\* C19: under fair random chromosome choice, a call of generate_reversal,
\* generate_duplication or generate_deletion on a genome with at least one
\* chromosome of at least 2 candidate indices eventually returns a Mutation,
\* whatever the state of the other chromosomes.
C19_EventuallyReturns ==
    (pc = "generate" /\ mutation_type \in IntervalTypes
        /\ Qualifying(mutation_type) # {}) ~> (pc = "apply")

\* C20: a mutation returned by generate_reversal, generate_duplication or
\* generate_deletion names a chromosome of the genome; its start and end indices
\* are candidate indices of that chromosome with 0 <= start < end <= len, the
\* start is not the last candidate; and for a chromosome that qualifies every
\* pair of candidates a < b is the interval of some mutation the call can return.
StartIndex(m) ==
    CASE m.mutation_type = REVERSAL -> m.mutation_data.reversal_start_index
      [] m.mutation_type = DUPLICATION -> m.mutation_data.duplication_start_index
      [] m.mutation_type = DELETION -> m.mutation_data.deletion_start_index
EndIndex(m) ==
    CASE m.mutation_type = REVERSAL -> m.mutation_data.reversal_end_index
      [] m.mutation_type = DUPLICATION -> m.mutation_data.duplication_end_index
      [] m.mutation_type = DELETION -> m.mutation_data.deletion_end_index
LastCandidate(cands) == CHOOSE c \in cands : \A d \in cands : d <= c

C20_IntervalInCandidates ==
    /\ (pc = "apply" /\ mutation.mutation_type \in IntervalTypes) =>
            LET chromosome_index == mutation.mutation_data.chromosome_index
            IN /\ chromosome_index \in 0..(Len(CurrentGenome) - 1)
               /\ LET chromosome == At(CurrentGenome, chromosome_index)
                      cands == Candidates(chromosome, ArmFlag(mutation.mutation_type))
                  IN /\ StartIndex(mutation) \in cands
                     /\ EndIndex(mutation) \in cands
                     /\ 0 <= StartIndex(mutation)
                     /\ StartIndex(mutation) < EndIndex(mutation)
                     /\ EndIndex(mutation) <= Len(chromosome)
                     /\ StartIndex(mutation) # LastCandidate(cands)
    /\ (pc = "generate" /\ mutation_type \in IntervalTypes) =>
            \A i \in Qualifying(mutation_type) :
                LET cands == Candidates(At(CurrentGenome, i), ArmFlag(mutation_type))
                IN \A a \in cands : \A b \in cands :
                    a < b =>
                        \E o \in Outcomes :
                            /\ o.kind = "return"
                            /\ o.mutation.mutation_type = mutation_type
                            /\ o.mutation.mutation_data.chromosome_index = i
                            /\ StartIndex(o.mutation) = a
                            /\ EndIndex(o.mutation) = b

\* A returned interval of a chromosome with at least 3 candidates, from the
\* candidate before the last to the last.
C20_Witness ==
    /\ pc = "apply"
    /\ mutation.mutation_type \in IntervalTypes
    /\ LET cands == Candidates(At(CurrentGenome, mutation.mutation_data.chromosome_index),
                               ArmFlag(mutation.mutation_type))
       IN /\ Cardinality(cands) >= 3
          /\ EndIndex(mutation) = LastCandidate(cands)
          /\ StartIndex(mutation) = LastCandidate(cands \ {LastCandidate(cands)})

\* C21: with the arm flag of its type unset, a mutation returned by
\* generate_reversal or generate_deletion has start >= 1 and end <= len - 1 and
\* none of its four recorded Positions is null; with the flag set, index 0 and
\* index len of a chromosome that qualifies can be returned as start and as end
\* whenever breakage_indexes lists them.
ArmTypes == {REVERSAL, DELETION}

C21_ArmPolicy ==
    /\ (pc = "apply" /\ mutation.mutation_type \in ArmTypes
            /\ ~ArmFlag(mutation.mutation_type)) =>
            LET chromosome == At(CurrentGenome, mutation.mutation_data.chromosome_index)
            IN /\ StartIndex(mutation) >= 1
               /\ EndIndex(mutation) <= Len(chromosome) - 1
               /\ Len(mutation.mutation_data.positions) = 4
               /\ \A p \in Range(mutation.mutation_data.positions) : p # None
    /\ (pc = "generate" /\ mutation_type \in ArmTypes /\ ArmFlag(mutation_type)) =>
            \A i \in Qualifying(mutation_type) :
                LET chromosome == At(CurrentGenome, i)
                    listed == Range(breakage_indexes(chromosome, Config))
                IN /\ 0 \in listed =>
                        \E o \in Outcomes :
                            /\ o.kind = "return"
                            /\ o.mutation.mutation_data.chromosome_index = i
                            /\ StartIndex(o.mutation) = 0
                   /\ Len(chromosome) \in listed =>
                        \E o \in Outcomes :
                            /\ o.kind = "return"
                            /\ o.mutation.mutation_data.chromosome_index = i
                            /\ EndIndex(o.mutation) = Len(chromosome)

\* A reversal or deletion returned with the flag unset for a chromosome whose
\* breakage_indexes list held both index 0 and index len.
C21_Witness ==
    /\ pc = "apply"
    /\ mutation.mutation_type \in ArmTypes
    /\ ~ArmFlag(mutation.mutation_type)
    /\ LET chromosome == At(CurrentGenome, mutation.mutation_data.chromosome_index)
       IN {0, Len(chromosome)} \subseteq Range(breakage_indexes(chromosome, Config))

\* C22: the positions [sp1, sp2, ep1, ep2] of a returned reversal, duplication
\* or deletion of [start, end) on chromosome c are those of the genome the
\* mutation was generated against and is applied to: sp1 is c[start-1]'s end or
\* null when start = 0, sp2 is c[start]'s start, ep1 is c[end-1]'s end, ep2 is
\* c[end]'s start or null when end = len(c); a Position is null exactly at a
\* chromosome terminus.
C22_RecordedPositions ==
    (pc \in {"apply", "record"} /\ mutation.mutation_type \in IntervalTypes) =>
        LET c == At(InputGenome, mutation.mutation_data.chromosome_index)
            start == StartIndex(mutation)
            end == EndIndex(mutation)
            positions == mutation.mutation_data.positions
        IN /\ start < end
           /\ Len(positions) = 4
           /\ positions[1] = IF start = 0 THEN None ELSE end_position(At(c, start - 1))
           /\ positions[2] = start_position(At(c, start))
           /\ positions[3] = end_position(At(c, end - 1))
           /\ positions[4] = IF end = Len(c) THEN None ELSE start_position(At(c, end))
           /\ positions[1] = None <=> start = 0
           /\ positions[4] = None <=> end = Len(c)
           /\ positions[2] # None /\ positions[3] # None

\* An applied interval mutation that starts at a chromosome terminus, ends
\* inside the chromosome and changed the genome.
C22_Witness ==
    /\ pc = "record"
    /\ mutation.mutation_type \in IntervalTypes
    /\ StartIndex(mutation) = 0
    /\ EndIndex(mutation) < Len(At(InputGenome, mutation.mutation_data.chromosome_index))
    /\ CurrentGenome # InputGenome

\* C23: a mutation returned by generate_translocation names two distinct
\* chromosomes of the genome, and on a genome of fewer than 2 chromosomes no
\* pass of generate_translocation returns.
C23_DistinctChromosomes ==
    /\ (pc = "apply" /\ mutation.mutation_type = TRANSLOCATION) =>
            /\ mutation.mutation_data.chr1_index # mutation.mutation_data.chr2_index
            /\ mutation.mutation_data.chr1_index \in 0..(Len(CurrentGenome) - 1)
            /\ mutation.mutation_data.chr2_index \in 0..(Len(CurrentGenome) - 1)
    /\ (pc = "generate" /\ mutation_type = TRANSLOCATION /\ Len(CurrentGenome) < 2) =>
            \A o \in Outcomes : o.kind # "return"

\* A translocation returned with the higher index first.
C23_Witness ==
    /\ pc = "apply"
    /\ mutation.mutation_type = TRANSLOCATION
    /\ mutation.mutation_data.chr1_index > mutation.mutation_data.chr2_index

\* C24: for every pair of profiles, a call of
\* get_correctly_inferred_present_absent_unphased_adjacencies returns no result
\* set: every frame of the call stands at the call of the function itself, and
\* none reaches the union with the present set.
C24_NeverReturns ==
    result.call = "present_absent" =>
        /\ ~result.returned
        /\ \A i \in DOMAIN result.stack : result.stack[i].line = 413

\* The call, three frames deep, on profiles that share an identity.
C24_Witness ==
    /\ result.call = "present_absent"
    /\ Len(result.stack) >= 3
    /\ DOMAIN ref_acnp \cap DOMAIN inf_acnp # {}

\* C25: get_adjacencies_from_genome makes an adjacency REFERENCE exactly when
\* is_reference is set or its identity was in ref_adjacencies, and NOVEL
\* otherwise; with is_reference set ref_adjacencies ends as its prior content
\* plus the identity of every adjacency of the genome, and with is_reference
\* unset with its prior content; so after the reference genome (the first
\* snapshot) was extracted into an empty ref_adjacencies, an adjacency of a
\* genome extracted with is_reference unset is NOVEL iff its identity does not
\* occur in the reference genome.
GenomeIdentities(genome) ==
    UNION {{Adjacency(end_position(genome[c][i]), start_position(genome[c][i + 1]),
                      NOVEL).idx : i \in 1..(Len(genome[c]) - 1)} : c \in DOMAIN genome}
Occurrences(value) ==
    UNION {UNION {Range(value[id][ph]) : ph \in DOMAIN value[id]} : id \in DOMAIN value}
ReferenceCall ==
    [function |-> "get_adjacencies_from_genome", genome |-> 1, is_reference |-> TRUE,
     given |-> TRUE]

C25_Classification ==
    result.call = "get_adjacencies_from_genome" =>
        LET ids == GenomeIdentities(Snapshot(result.genome))
        IN /\ DOMAIN result.value = ids
           /\ \A id \in DOMAIN result.value : \A ph \in DOMAIN result.value[id] :
                \A j \in DOMAIN result.value[id][ph] :
                    /\ result.value[id][ph][j].idx = id
                    /\ result.value[id][ph][j].adjacency_type =
                            IF result.is_reference \/ id \in result.before
                            THEN REFERENCE ELSE NOVEL
           /\ result.is_reference => result.after = result.before \cup ids
           /\ ~result.is_reference => result.after = result.before
           /\ (Len(result.calls) = 2 /\ result.calls[1] = ReferenceCall
                    /\ result.given /\ ~result.is_reference) =>
                \A a \in Occurrences(result.value) :
                    a.adjacency_type = NOVEL <=> a.idx \notin GenomeIdentities(Snapshot(1))

\* The reference genome extracted, then a mutated genome that has both an
\* adjacency of the reference and one that is new.
C25_Witness ==
    /\ result.call = "get_adjacencies_from_genome"
    /\ Len(result.calls) = 2
    /\ result.calls[1] = ReferenceCall
    /\ result.given /\ ~result.is_reference
    /\ result.genome > 1
    /\ \E a \in Occurrences(result.value) : a.adjacency_type = NOVEL
    /\ \E a \in Occurrences(result.value) : a.adjacency_type = REFERENCE

\* C26: get_adjacencies_from_genome keeps multiplicity: every pair of
\* consecutive segments of every chromosome is one occurrence in the bucket of
\* its identity and its phasing, so the bucket lengths sum to the sum over the
\* chromosomes of max(len(chromosome) - 1, 0), and the length of a bucket is the
\* number of pairs of that identity and phasing.
Junctions(genome) ==
    UNION {{<<c, i>> : i \in 1..(Len(genome[c]) - 1)} : c \in DOMAIN genome}
JunctionIdentity(genome, x) ==
    Adjacency(end_position(genome[x[1]][x[2]]), start_position(genome[x[1]][x[2] + 1]),
              NOVEL).idx
JunctionPhasing(genome, x) ==
    LET s1 == genome[x[1]][x[2]]
        s2 == genome[x[1]][x[2] + 1]
    IN IF end_position(s1) = JunctionIdentity(genome, x)[2]
       THEN HAPLOTYPE_PAIRS_TO_PHASING(<<s1.haplotype, s2.haplotype>>)
       ELSE HAPLOTYPE_PAIRS_TO_PHASING(<<s2.haplotype, s1.haplotype>>)
RECURSIVE JunctionCount(_, _)
JunctionCount(genome, c) ==
    IF c > Len(genome) THEN 0
    ELSE (IF Len(genome[c]) - 1 > 0 THEN Len(genome[c]) - 1 ELSE 0)
            + JunctionCount(genome, c + 1)
Buckets(value) == UNION {{<<key, b>> : b \in DOMAIN value[key]} : key \in DOMAIN value}
RECURSIVE BucketLengths(_, _)
BucketLengths(value, buckets) ==
    IF buckets = {} THEN 0
    ELSE LET x == CHOOSE x \in buckets : TRUE
         IN Len(value[x[1]][x[2]]) + BucketLengths(value, buckets \ {x})

C26_Multiplicity ==
    result.call = "get_adjacencies_from_genome" =>
        LET genome == Snapshot(result.genome)
            occurs(id, ph) == {x \in Junctions(genome) :
                                    /\ JunctionIdentity(genome, x) = id
                                    /\ JunctionPhasing(genome, x) = ph}
        IN /\ BucketLengths(result.value, Buckets(result.value)) = JunctionCount(genome, 1)
           /\ \A x \in Junctions(genome) :
                /\ JunctionIdentity(genome, x) \in DOMAIN result.value
                /\ JunctionPhasing(genome, x)
                        \in DOMAIN result.value[JunctionIdentity(genome, x)]
           /\ \A b \in Buckets(result.value) :
                Len(result.value[b[1]][b[2]]) = Cardinality(occurs(b[1], b[2]))

\* A genome extracted in which an adjacency occurs twice under one phasing.
C26_Witness ==
    /\ result.call = "get_adjacencies_from_genome"
    /\ \E b \in Buckets(result.value) : Len(result.value[b[1]][b[2]]) >= 2
    /\ Cardinality(Buckets(result.value)) >= 2

\* C27: after get_scn_profile_from_genome every segment of the genome has the
\* orientation it had before (is_reversed flag and start and end Positions);
\* every segment occurrence is in exactly one bucket, that of the identity of its
\* un-reversed form and of its haplotype, so the bucket lengths sum to the
\* number of segments of the genome.
Unreversed(segment) == [segment EXCEPT !.is_reversed = FALSE]
SegmentSlots(genome) ==
    UNION {{<<c, i>> : i \in 1..Len(genome[c])} : c \in DOMAIN genome}

C27_ScnProfile ==
    result.call = "get_scn_profile_from_genome" =>
        LET genome == Snapshot(result.genome)
            occurs(id, h) == {x \in SegmentSlots(genome) :
                                /\ segment_idx(Unreversed(genome[x[1]][x[2]])) = id
                                /\ genome[x[1]][x[2]].haplotype = h}
        IN /\ genome = result.before
           /\ \A x \in SegmentSlots(genome) :
                /\ genome[x[1]][x[2]].is_reversed = result.before[x[1]][x[2]].is_reversed
                /\ start_position(genome[x[1]][x[2]])
                        = start_position(result.before[x[1]][x[2]])
                /\ end_position(genome[x[1]][x[2]]) = end_position(result.before[x[1]][x[2]])
           /\ BucketLengths(result.value, Buckets(result.value))
                = Cardinality(SegmentSlots(genome))
           /\ \A x \in SegmentSlots(genome) :
                /\ segment_idx(Unreversed(genome[x[1]][x[2]])) \in DOMAIN result.value
                /\ genome[x[1]][x[2]].haplotype
                        \in DOMAIN result.value[segment_idx(Unreversed(genome[x[1]][x[2]]))]
           /\ \A b \in Buckets(result.value) :
                Len(result.value[b[1]][b[2]]) = Cardinality(occurs(b[1], b[2]))

\* The profile of a genome that holds a reversed segment and two occurrences of
\* one segment.
C27_Witness ==
    /\ result.call = "get_scn_profile_from_genome"
    /\ \E x \in SegmentSlots(result.before) : result.before[x[1]][x[2]].is_reversed
    /\ \E b \in Buckets(result.value) : Len(result.value[b[1]][b[2]]) >= 2

\* C28: in the history of a run, every genome after the first is what
\* apply_mutation makes of the genome before it and of the mutation between
\* them, and that mutation is one generate_mutation can return for the genome
\* before it (with the mutated_extremities of the mutations before it); no step
\* changes a snapshot already in the history or the caller's starting genome.
PriorME(i) == UNION {Positions(history.mutations[j]) : j \in 1..(i - 1)}

HistoryChained ==
    \A i \in 1..(Len(history.genomes) - 1) :
        LET m == history.mutations[i]
            r == apply_mutation(heap, history.genomes[i], m)
        IN /\ r.error = "none"
           /\ heap[history.genomes[i + 1]] = r.heap[r.result]
           /\ \E o \in generate_mutation(m.mutation_type, heap[history.genomes[i]],
                            [Config EXCEPT !.mutated_extremities = PriorME(i)], rng) :
                o.kind = "return" /\ o.mutation = m

SnapshotsKept ==
    /\ \A i \in DOMAIN history.genomes :
        /\ i \in DOMAIN history'.genomes
        /\ history'.genomes[i] = history.genomes[i]
        /\ heap'[history.genomes[i]] = heap[history.genomes[i]]
    /\ heap'[starting_genome] = heap[starting_genome]
    /\ starting_genome' = starting_genome

C28_HistoryConsistent == [](HistoryChained) /\ [][SnapshotsKept]_vars

\* A returned history of two mutations whose three snapshots differ.
C28_Witness ==
    /\ pc = "done"
    /\ Len(history.mutations) = 2
    /\ Snapshot(1) # Snapshot(2)
    /\ Snapshot(2) # Snapshot(3)
    /\ Snapshot(1) # Snapshot(3)

\* C29: in a run that starts with mutated_extremities empty, in every snapshot
\* of the history every junction of two consecutive segments that is no junction
\* of the starting genome has both its Positions in mutated_extremities, and
\* breakage_indexes lists no such junction of the current genome as a split
\* point.
StartJunctions ==
    {JunctionIdentity(heap[starting_genome], x) : x \in Junctions(heap[starting_genome])}
Created(genome) ==
    {x \in Junctions(genome) : JunctionIdentity(genome, x) \notin StartJunctions}

C29_CreatedJunctionsUsed ==
    /\ \A g \in DOMAIN history.genomes :
        \A x \in Created(Snapshot(g)) :
            /\ end_position(Snapshot(g)[x[1]][x[2]]) \in ME
            /\ start_position(Snapshot(g)[x[1]][x[2] + 1]) \in ME
    /\ pc = "generate" =>
        \A x \in Created(CurrentGenome) :
            x[2] \notin Range(breakage_indexes(CurrentGenome[x[1]], Config))

\* A snapshot with a created junction while a generator runs on it.
C29_Witness ==
    /\ pc = "generate"
    /\ Created(CurrentGenome) # {}
    /\ \E c \in DOMAIN CurrentGenome :
        Range(breakage_indexes(CurrentGenome[c], Config)) # {}

\* C30: generate_mutated_genome creates mutated_extremities only when the
\* configuration has none and never resets it; the subclonal run, which shares
\* the configuration object of the clonal run, starts with the clonal run's
\* final set, and none of its reversals, duplications and deletions records a
\* Position that a mutation of the clonal run recorded.
ClonalPositions == UNION {Positions(m) : m \in Range(replay.first.mutations)}

SubclonalStartsWithClonalSet ==
    /\ (replay.run = 2 /\ pc = "loop" /\ k = 0) => ME = ClonalPositions
    /\ (replay.run = 2 /\ pc \in {"apply", "record"}
            /\ mutation.mutation_type \in IntervalTypes) =>
            Positions(mutation) \cap ClonalPositions = {}

NeverReset ==
    Config.has_me =>
        /\ configs'[mutations_config'].has_me
        /\ ME \subseteq configs'[mutations_config'].mutated_extremities

C30_SharedConfiguration == [](SubclonalStartsWithClonalSet) /\ [][NeverReset]_vars

\* A reversal, duplication or deletion of the subclonal run, returned while the
\* set holds the Positions of a clonal mutation.
C30_Witness ==
    /\ replay.run = 2
    /\ pc = "apply"
    /\ mutation.mutation_type \in IntervalTypes
    /\ ClonalPositions # {}
    /\ ClonalPositions \subseteq ME

\* C31: generate_duplication applies no arm policy. Under every configuration
\* the intervals a call can return are exactly the pairs a < b of
\* breakage_indexes of the chosen chromosome: a duplication can start at index
\* 0 and can end at index len whenever breakage_indexes lists them, the whole
\* chromosome [0, len) included, and the recorded sp1 (ep2) of a returned
\* duplication is null when it starts at 0 (ends at len).
Listed(i) == Range(breakage_indexes(At(CurrentGenome, i), Config))
ReturnedIntervals ==
    {<<o.mutation.mutation_data.chromosome_index, StartIndex(o.mutation),
       EndIndex(o.mutation)>> : o \in {r \in Outcomes : r.kind = "return"}}
ListedIntervals ==
    UNION {{x \in {<<i, a, b>> : a \in Listed(i), b \in Listed(i)} : x[2] < x[3]}
           : i \in 0..(Len(CurrentGenome) - 1)}

C31_DuplicationNoArmPolicy ==
    /\ (pc = "generate" /\ mutation_type = DUPLICATION) =>
            /\ ReturnedIntervals = ListedIntervals
            /\ \A o \in Outcomes : o.kind \in {"return", "retry"}
            /\ \A i \in 0..(Len(CurrentGenome) - 1) :
                LET len == Len(At(CurrentGenome, i))
                IN /\ (0 \in Listed(i) /\ Cardinality(Listed(i)) >= 2) =>
                        \E o \in Outcomes :
                            /\ o.kind = "return"
                            /\ o.mutation.mutation_data.chromosome_index = i
                            /\ StartIndex(o.mutation) = 0
                            /\ o.mutation.mutation_data.positions[1] = None
                   /\ (len \in Listed(i) /\ Cardinality(Listed(i)) >= 2) =>
                        \E o \in Outcomes :
                            /\ o.kind = "return"
                            /\ o.mutation.mutation_data.chromosome_index = i
                            /\ EndIndex(o.mutation) = len
                            /\ o.mutation.mutation_data.positions[4] = None
                   /\ ({0, len} \subseteq Listed(i) /\ len > 0) =>
                        \E o \in Outcomes :
                            /\ o.kind = "return"
                            /\ o.mutation.mutation_data.chromosome_index = i
                            /\ StartIndex(o.mutation) = 0
                            /\ EndIndex(o.mutation) = len
                            /\ o.mutation.mutation_data.positions[1] = None
                            /\ o.mutation.mutation_data.positions[4] = None
    /\ (pc = "apply" /\ mutation.mutation_type = DUPLICATION) =>
            LET i == mutation.mutation_data.chromosome_index
                positions == mutation.mutation_data.positions
            IN /\ {StartIndex(mutation), EndIndex(mutation)} \subseteq Listed(i)
               /\ StartIndex(mutation) = 0 => positions[1] = None
               /\ EndIndex(mutation) = Len(At(CurrentGenome, i)) => positions[4] = None

\* A duplication of a whole chromosome returned under the default configuration,
\* whose arm flags are all unset, after an earlier mutation was recorded.
C31_Witness ==
    /\ pc = "apply"
    /\ mutation.mutation_type = DUPLICATION
    /\ ~Config.arm_deletion /\ ~Config.arm_reversal
    /\ ME # {}
    /\ StartIndex(mutation) = 0
    /\ EndIndex(mutation) = Len(At(CurrentGenome, mutation.mutation_data.chromosome_index))
    /\ mutation.mutation_data.positions[1] = None
    /\ mutation.mutation_data.positions[4] = None

====
